---- MODULE Spec2Model ----
(***************************************************************************)
(* Model of the attachment pipeline of shaktip27/dualwavetech:             *)
(* adapters/email_processor.py (ledger, company resolver, folder           *)
(* derivation, per-file handler, archive handler, process_email) together  *)
(* with the parts of zip_handler.py, heron_service.py and                  *)
(* sharepoint_uploader.py that the handler drives.                         *)
(*                                                                         *)
(* Strings that the code inspects character by character (owner names,     *)
(* company names, remote user ids) are sequences of one-character strings. *)
(* File names are records [base, ext] as os.path.splitext splits them.     *)
(***************************************************************************)
EXTENDS Integers, Sequences, FiniteSets, TLC

VARIABLES
    ledger,                  \* attachment_log.json: sequence of entries
    disk,                    \* local paths that exist
    folders,                 \* top-level folders that exist in the store
    uploads,                 \* successful store uploads, in order
    heronUsers,              \* end users that exist in the remote parser
    extracted_company_name,  \* EmailProcessor._extracted_company_name
    timestamped_folder,      \* EmailProcessor._timestamped_folder
    email_pdf_uploaded,      \* EmailProcessor._email_pdf_uploaded
    pc,                      \* position of the worker
    email,                   \* the email record being processed
    scanIdx,                 \* pre-scan loop index
    bank_statement_files,    \* pre-scan bucket
    non_bank_files,          \* pre-scan bucket
    queue,                   \* phase 2: attachments still to process
    zipCur,                  \* archive being processed
    zipQueue,                \* archive members still to process
    emailsDone,              \* number of process_email calls started
    filesDone,               \* number of attachments received so far
    handled,                 \* history: handler invocations of this email
    last,                    \* history: the latest handler invocation
    folderChecks,            \* folder_exists calls of the last derivation
    owners,                  \* the extractor's answers to the last resolve
    resolved,                \* value returned by the last resolve
    ledger_kind,             \* shape of the content of attachment_log.json
    call,                    \* the latest library call: operation, arguments, result
    mailbox,                 \* the Outlook mailbox: per message, its flags
    jobs                     \* per thread, its position in process_emails_job

vars == <<ledger, disk, folders, uploads, heronUsers, extracted_company_name,
          timestamped_folder, email_pdf_uploaded, pc, email, scanIdx,
          bank_statement_files, non_bank_files, queue, zipCur, zipQueue,
          emailsDone, filesDone, handled, last, folderChecks, owners, resolved,
          ledger_kind, call, mailbox, jobs>>

-----------------------------------------------------------------------------
(* Bounds *)
MaxMessages == 2

MaxEmails == 2
MaxFiles == 2

(* Program constants *)

MAX_COMPANY_EXTRACTION_RETRIES == 2
max_retries == 3
FolderCounterLimit == 100

-----------------------------------------------------------------------------
(* Character strings *)

None == <<>>

Lowers ==
    <<"a", "b", "c", "d", "e", "f", "g", "h", "i", "j", "k", "l", "m", "n",
      "o", "p", "q", "r", "s", "t", "u", "v", "w", "x", "y", "z">>
Uppers ==
    <<"A", "B", "C", "D", "E", "F", "G", "H", "I", "J", "K", "L", "M", "N",
      "O", "P", "Q", "R", "S", "T", "U", "V", "W", "X", "Y", "Z">>
Digits == {"0", "1", "2", "3", "4", "5", "6", "7", "8", "9"}

Range(s) == {s[i] : i \in DOMAIN s}

\* str.upper(), one character
UpperChar(c) ==
    IF \E i \in DOMAIN Lowers : Lowers[i] = c
    THEN Uppers[CHOOSE i \in DOMAIN Lowers : Lowers[i] = c]
    ELSE c

\* str.upper()
Upper(s) == [i \in DOMAIN s |-> UpperChar(s[i])]

\* str.lower()
LowerChar(c) ==
    IF \E i \in DOMAIN Uppers : Uppers[i] = c
    THEN Lowers[CHOOSE i \in DOMAIN Uppers : Uppers[i] = c]
    ELSE c

Lower(s) == [i \in DOMAIN s |-> LowerChar(s[i])]

\* sub in s, and s.endswith(suffix)
Contains(s, sub) ==
    \E i \in 0..(Len(s) - Len(sub)) : SubSeq(s, i + 1, i + Len(sub)) = sub
EndsWith(s, suffix) ==
    /\ Len(suffix) <= Len(s)
    /\ SubSeq(s, Len(s) - Len(suffix) + 1, Len(s)) = suffix

IsSpace(c) == c = " "

RECURSIVE LStrip(_)
LStrip(s) == IF s # <<>> /\ IsSpace(Head(s)) THEN LStrip(Tail(s)) ELSE s

RECURSIVE RStrip(_)
RStrip(s) ==
    IF s # <<>> /\ IsSpace(s[Len(s)]) THEN RStrip(SubSeq(s, 1, Len(s) - 1)) ELSE s

\* str.strip()
Strip(s) == RStrip(LStrip(s))

IsAlnum(c) == c \in Range(Lowers) \cup Range(Uppers) \cup Digits

STR_UNKNOWN == <<"U", "N", "K", "N", "O", "W", "N">>
STR_UNKNOWN_COMPANY ==
    <<"U", "N", "K", "N", "O", "W", "N", "_", "C", "O", "M", "P", "A", "N", "Y">>
Sentinels == {STR_UNKNOWN_COMPANY, STR_UNKNOWN, <<>>}

-----------------------------------------------------------------------------
(* Company resolver: EmailProcessor._extract_company_name_with_retry *)

\* What PDFAnalyzerGenAI.analyze_pdf hands back: None, an empty container,
\* a JSON object (dict), or a JSON array whose first element is an object;
\* with shape "raises" the call raises instead of returning.
Resp(shape, has_owner, owner) ==
    [shape |-> shape, has_owner |-> has_owner, owner |-> owner]

\* gemini_response and len(gemini_response) > 0, then gemini_response[0]:
\* indexing a dict with 0 raises KeyError, which the except clause swallows.
FirstRecordReadable(r) == r.shape = "list"

\* company_name and company_name.strip() and
\* company_name.upper() not in ["UNKNOWN_COMPANY", "UNKNOWN", ""]
OwnerAccepted(r) ==
    /\ FirstRecordReadable(r)
    /\ r.has_owner
    /\ r.owner # <<>>
    /\ Strip(r.owner) # <<>>
    /\ Upper(r.owner) \notin Sentinels

\* what a retry loop does, in order: a call of the external service, or a
\* time.sleep of so many seconds
Event(ev, secs) == [ev |-> ev, secs |-> secs]
Called == Event("call", 0)
Slept(secs) == Event("sleep", secs)

\* The for loop of lines 147-171. rs[attempt] is what analyze_pdf does at
\* that attempt; a raise inside the try is logged by the except clause and
\* the attempt ends like a rejected one. The sleep of line 170 follows a
\* rejected attempt that is not the last.
RECURSIVE ExtractLoop(_, _)
ExtractLoop(rs, attempt) ==
    IF attempt > MAX_COMPANY_EXTRACTION_RETRIES
    THEN [name |-> None, calls |-> MAX_COMPANY_EXTRACTION_RETRIES,
          trace |-> <<>>, raised |-> FALSE]
    ELSE IF OwnerAccepted(rs[attempt])
         THEN [name |-> Strip(rs[attempt].owner), calls |-> attempt,
               trace |-> <<Called>>, raised |-> FALSE]
         ELSE [ExtractLoop(rs, attempt + 1) EXCEPT !.trace =
                  <<Called>>
                  \o (IF attempt < MAX_COMPANY_EXTRACTION_RETRIES
                      THEN <<Slept(2)>> ELSE <<>>)
                  \o @]

\* a resolver that also sleeps once it is through
extract_company_name_sleep_last(rs) ==
    [ExtractLoop(rs, 1) EXCEPT !.trace = Append(@, Slept(2))]

extract_company_name_with_retry(rs) == ExtractLoop(rs, 1)

-----------------------------------------------------------------------------
(* Folder derivation: EmailProcessor._create_timestamped_folder *)

\* f"{timestamp}_{company_name}" and f"{base_folder}({counter})"; the date is
\* the same for every call of a run, counter 0 is the unsuffixed name.
FolderName(company, counter) == [base |-> company, counter |-> counter]
NoFolder == FolderName(None, 0)

\* SharePointUploader.folder_exists
folder_exists(name, store) == name \in store

\* a derivation that tries a single suffix instead of looping
create_timestamped_folder_once(company, store) ==
    IF folder_exists(FolderName(company, 0), store)
    THEN [name |-> FolderName(company, 1), checks |-> 1]
    ELSE [name |-> FolderName(company, 0), checks |-> 1]

\* The while loop of lines 184-189. It leaves with counter c exactly when
\* every earlier name was reported to exist (the loop went on) and either the
\* name for c is reported absent (the loop condition fails) or c has passed
\* the limit (the break); folder_exists is called once per name tried, the
\* name built just before the break is not checked.
create_timestamped_folder(company, store) ==
    LET Tried(c) == \A j \in 0..(c - 1) :
                        folder_exists(FolderName(company, j), store)
        Leaves(c) == \/ c > FolderCounterLimit
                     \/ ~folder_exists(FolderName(company, c), store)
        counter == CHOOSE c \in 0..(FolderCounterLimit + 1) : Tried(c) /\ Leaves(c)
    IN  [name |-> FolderName(company, counter),
         checks |-> IF counter > FolderCounterLimit THEN counter ELSE counter + 1]

-----------------------------------------------------------------------------
(* Ledger: module functions of email_processor.py *)

FileName(base, ext) == [base |-> base, ext |-> ext]

Entry(message_id, file_name, hash, outcome) ==
    [message_id |-> message_id, file_name |-> file_name,
     hash |-> hash, outcome |-> outcome]

is_duplicate(file_hash, led) == \E i \in DOMAIN led : led[i].hash = file_hash

RECURSIVE UniqueLoop(_, _, _)
UniqueLoop(name, counter, existing) ==
    LET new_filename ==
            FileName(name.base \o "(" \o ToString(counter) \o ")", name.ext)
    IN  IF new_filename \notin existing
        THEN new_filename
        ELSE UniqueLoop(name, counter + 1, existing)

\* a renaming that always takes the first suffix
get_unique_filename_first(original_filename, led) ==
    LET existing_filenames == {led[i].file_name : i \in DOMAIN led}
    IN  IF original_filename \notin existing_filenames
        THEN original_filename
        ELSE FileName(original_filename.base \o "(1)", original_filename.ext)

get_unique_filename(original_filename, led) ==
    LET existing_filenames == {led[i].file_name : i \in DOMAIN led}
    IN  IF original_filename \notin existing_filenames
        THEN original_filename
        ELSE UniqueLoop(original_filename, 1, existing_filenames)

\* a record that replaces the stored entries instead of appending to them
log_attachment_overwrite(led, message_id, file_name, file_hash, outcome) ==
    <<Entry(message_id, file_name, file_hash, outcome)>>

log_attachment(led, message_id, file_name, file_hash, outcome) ==
    Append(led, Entry(message_id, file_name, file_hash, outcome))

\* What attachment_log.json can hold: no file, a JSON list of entries, text
\* that is not JSON (empty or truncated), bytes that are not text, or a JSON
\* value that is not a list (null, a number).
LedgerKinds == {"absent", "list", "bad_json", "bad_bytes", "not_list"}
Malformed == {"bad_json", "bad_bytes", "not_list"}

\* ensure_ledger: a missing file is created holding []; json.load's
\* JSONDecodeError is the only exception handled (an empty list is returned
\* and the file is left as it is); a decoding error of the text layer
\* propagates; a JSON value of another type is returned as it is.
ensure_ledger(kind, led) ==
    IF kind = "absent"
    THEN [raised |-> FALSE, is_list |-> TRUE, value |-> <<>>, kind |-> "list"]
    ELSE IF kind = "list"
    THEN [raised |-> FALSE, is_list |-> TRUE, value |-> led, kind |-> kind]
    ELSE IF kind = "bad_json"
    THEN [raised |-> FALSE, is_list |-> TRUE, value |-> <<>>, kind |-> kind]
    ELSE IF kind = "bad_bytes"
    THEN [raised |-> TRUE, is_list |-> FALSE, value |-> <<>>, kind |-> kind]
    ELSE [raised |-> FALSE, is_list |-> FALSE, value |-> <<>>, kind |-> kind]

-----------------------------------------------------------------------------
(* Classifier: BankStatementDetector *)

BANK_KEYWORDS ==
    <<<<"m", "o", "n", "t", "h", "l", "y", " ", "s", "t", "a", "t", "e", "m", "e", "n", "t">>,
      <<"a", "c", "c", "o", "u", "n", "t", " ", "s", "u", "m", "m", "a", "r", "y">>,
      <<"a", "c", "t", "i", "v", "i", "t", "y", " ", "r", "e", "p", "o", "r", "t">>,
      <<"s", "t", "a", "t", "e", "m", "e", "n", "t", " ", "p", "e", "r", "i", "o", "d">>,
      <<"d", "e", "p", "o", "s", "i", "t", "s", " ", "a", "n", "d", " ", "w", "i", "t", "h", "d", "r", "a", "w", "a", "l", "s">>,
      <<"b", "a", "l", "a", "n", "c", "e", " ", "f", "o", "r", "w", "a", "r", "d">>,
      <<"c", "h", "e", "c", "k", "i", "n", "g", " ", "a", "c", "c", "o", "u", "n", "t">>,
      <<"s", "a", "v", "i", "n", "g", "s", " ", "a", "c", "c", "o", "u", "n", "t">>,
      <<"B", "a", "n", "k", " ", "S", "t", "a", "t", "e", "m", "e", "n", "t">>,
      <<"C", "h", "e", "c", "k", "i", "n", "g">>,
      <<"C", "h", "e", "c", "k", "i", "n", "g", " ", "A", "c", "c", "o", "u", "n", "t">>,
      <<"M", "o", "n", "t", "h", "l", "y", " ", "S", "t", "a", "t", "e", "m", "e", "n", "t">>,
      <<"A", "c", "c", "o", "u", "n", "t", " ", "S", "u", "m", "m", "a", "r", "y">>,
      <<"B", "e", "g", "i", "n", "n", "i", "n", "g", " ", "B", "a", "l", "a", "n", "c", "e">>,
      <<"E", "n", "d", "i", "n", "g", " ", "B", "a", "l", "a", "n", "c", "e">>,
      <<"A", "c", "c", "o", "u", "n", "t", " ", "H", "i", "s", "t", "o", "r", "y">>>>
min_keyword_threshold == 3

\* __init__: self._required_keywords = [kw.lower() for kw in required_keywords]
required_keywords == [i \in DOMAIN BANK_KEYWORDS |-> Lower(BANK_KEYWORDS[i])]

DetectorExtensions == {<<".", "p", "d", "f">>, <<".", "d", "o", "c">>, <<".", "d", "o", "c", "x">>, <<".", "c", "s", "v">>}
StrongNames == {<<"s", "t", "a", "t", "e", "m", "e", "n", "t">>, <<"b", "a", "n", "k">>, <<"a", "c", "c", "o", "u", "n", "t", "_", "s", "u", "m", "m", "a", "r", "y">>}
NameTokens == {<<"b", "a", "n", "k">>, <<"s", "t", "a", "t", "e", "m", "e", "n", "t">>, <<"a", "c", "c", "o", "u", "n", "t">>}

\* _get_file_text: dispatch on the lowercased suffix; every extractor returns
\* its text lowercased, or None. raw is what the format's extractor reads out
\* of the bytes (None when it reads nothing or fails).
get_file_text(raw, file_name) ==
    IF \E e \in DetectorExtensions : EndsWith(Lower(file_name), e)
    THEN Lower(raw)
    ELSE None

\* _check_filename
check_filename(file_name) ==
    LET name_lower == Lower(file_name)
    IN  IF ~\E e \in DetectorExtensions : EndsWith(name_lower, e)
        THEN FALSE
        ELSE IF \E k \in StrongNames : Contains(name_lower, k)
        THEN TRUE
        ELSE \E k \in NameTokens : Contains(name_lower, k)

\* found_count of _check_content_keywords: one per list entry found
found_count(text_content) ==
    Cardinality({i \in DOMAIN required_keywords :
                    Contains(text_content, required_keywords[i])})

\* _check_content_keywords(...)[0]
check_content_keywords(raw, file_name) ==
    LET text_content == get_file_text(raw, file_name)
    IN  IF text_content = None
        THEN FALSE
        ELSE found_count(text_content) >= min_keyword_threshold

\* detect(...)[0] and the strategy that decided
detect_bytes(raw, file_name) ==
    LET is_match_content == check_content_keywords(raw, file_name)
        is_match_filename == check_filename(file_name)
    IN  IF is_match_content
        THEN [is_bank_statement |-> TRUE, by |-> "content"]
        ELSE IF is_match_filename
        THEN [is_bank_statement |-> TRUE, by |-> "filename"]
        ELSE [is_bank_statement |-> FALSE, by |-> "none"]

-----------------------------------------------------------------------------
(* Store upload: EmailProcessor._upload_with_retry *)

\* outs[i] is what the i-th call of upload_file does: "ok", or it raises.
\* A failed attempt that is not the last is followed by
\* time.sleep(2 ** attempt).
RECURSIVE UploadLoop(_, _)
UploadLoop(outs, attempt) ==
    IF attempt > max_retries
    THEN [ok |-> FALSE, attempts |-> max_retries, trace |-> <<>>]
    ELSE IF outs[attempt] = "ok"
         THEN [ok |-> TRUE, attempts |-> attempt, trace |-> <<Called>>]
         ELSE IF attempt < max_retries
              THEN [UploadLoop(outs, attempt + 1) EXCEPT !.trace =
                       <<Called, Slept(2 ^ attempt)>> \o @]
              ELSE [ok |-> FALSE, attempts |-> attempt, trace |-> <<Called>>]

\* an upload that waits the same two seconds after every failure
upload_with_retry_fixed_wait(outs) ==
    [UploadLoop(outs, 1) EXCEPT !.trace =
        [i \in DOMAIN @ |-> IF @[i].ev = "sleep" THEN Slept(2) ELSE @[i]]]

upload_with_retry(outs) == UploadLoop(outs, 1)

-----------------------------------------------------------------------------
(* Remote parser: HeronService *)

UserPrefix == <<"e", "n", "e", "_">>

\* a user id that keeps the company name as it is
generate_user_id_raw(company_name) == UserPrefix \o company_name

\* re.sub(r'[^a-zA-Z0-9]', '', company_name).upper(), prefixed with "ene_"
generate_user_id(company_name) ==
    UserPrefix \o Upper(SelectSeq(company_name, IsAlnum))

\* How the service answers the two requests of ensure_user. check_ok: the GET
\* answers 200 or 404 as the user exists or not (otherwise another status or
\* a request error, and check_user_exists returns None); create_ok: the POST
\* answers 200/201 (otherwise create_user returns None).
ServiceAnswers == [check_ok : BOOLEAN, create_ok : BOOLEAN]

\* ensure_user: check_user_exists, then create_user when the check returned
\* nothing, then raise when that returned nothing either.
ensure_user(company_name, users, svc) ==
    LET user_id == generate_user_id(company_name)
        check == IF ~svc.check_ok THEN "error"
                 ELSE IF user_id \in users THEN "found" ELSE "not_found"
    IN  IF check = "found"
        THEN [raised |-> FALSE, user |-> user_id, users |-> users,
              check |-> check, ops |-> <<"check_user_exists">>]
        ELSE IF svc.create_ok
             THEN [raised |-> FALSE, user |-> user_id,
                   users |-> users \cup {user_id}, check |-> check,
                   ops |-> <<"check_user_exists", "create_user">>]
             ELSE [raised |-> TRUE, user |-> user_id, users |-> users,
                   check |-> check,
                   ops |-> <<"check_user_exists", "create_user">>]

\* wait_for_parsing: the status buckets
SUCCESS_STATES == {"transactions_loaded", "parsed", "completed"}
PENDING_STATES == {"new", "processing", "parsing", "human_reviewing"}
FAILED_STATES == {"failed", "error", "rejected"}

\* What check_file_status hands to the poll: nothing (an error status, a
\* request error, undecodable JSON), a JSON value that is not a list, or the
\* list of the user's files. A file is the status of its bank_statement, or
\* "absent" when it carries no bank_statement object.
NoResponse == [kind |-> "none", files |-> <<>>]
NotAList == [kind |-> "not_list", files |-> <<>>]
FileList(files) == [kind |-> "list", files |-> files]

\* an attempt that reports success when any file of the list is parsed
poll_attempt_any_success(file_data) ==
    IF file_data.kind # "list" \/ file_data.files = <<>>
    THEN "retry"
    ELSE IF \E i \in DOMAIN file_data.files :
                file_data.files[i] \in SUCCESS_STATES
    THEN "success"
    ELSE IF \E i \in DOMAIN file_data.files :
                file_data.files[i] \in FAILED_STATES
    THEN "failed"
    ELSE "retry"

\* One attempt of the loop of wait_for_parsing (lines 165-205): an empty or
\* non-list answer is retried; otherwise the files are read in order and the
\* first status of the success or failure bucket ends the poll.
poll_attempt(file_data) ==
    IF file_data.kind # "list" \/ file_data.files = <<>>
    THEN "retry"
    ELSE LET decisive == {i \in DOMAIN file_data.files :
                             file_data.files[i] \in SUCCESS_STATES \cup FAILED_STATES}
         IN  IF decisive = {}
             THEN "retry"
             ELSE LET first == CHOOSE i \in decisive : \A j \in decisive : i <= j
                  IN  IF file_data.files[first] \in SUCCESS_STATES
                      THEN "success" ELSE "failed"

\* a test that is satisfied by one file at "new"
all_new_any(file_data) ==
    /\ file_data.kind = "list"
    /\ \E i \in DOMAIN file_data.files : file_data.files[i] = "new"

\* file_data and all(f.get("bank_statement", {}).get("status") == "new"
\*                   for f in file_data), on a list or on None
all_new(file_data) ==
    /\ file_data.kind = "list"
    /\ file_data.files # <<>>
    /\ \A i \in DOMAIN file_data.files : file_data.files[i] = "new"

\* upload_and_parse_with_retry. in.up1/up2: upload_pdf returned an id;
\* in.wait1/wait2: wait_for_parsing returned True; in.status: what
\* check_file_status returns after a failed wait. A value that is not a list
\* (a JSON object, say) makes the generator of line 226 raise.
upload_and_parse_with_retry(in) ==
    IF ~in.up1
    THEN [success |-> FALSE, file_id |-> "", raised |-> FALSE,
          ops |-> <<"upload_pdf">>]
    ELSE IF in.wait1
         THEN [success |-> TRUE, file_id |-> "f1", raised |-> FALSE,
               ops |-> <<"upload_pdf", "parse_all_pdfs", "wait_for_parsing">>]
         ELSE IF in.status.kind = "not_list"
              THEN [success |-> FALSE, file_id |-> "", raised |-> TRUE,
                    ops |-> <<"upload_pdf", "parse_all_pdfs", "wait_for_parsing",
                              "check_file_status">>]
         ELSE IF ~all_new(in.status)
              THEN [success |-> FALSE, file_id |-> "f1", raised |-> FALSE,
                    ops |-> <<"upload_pdf", "parse_all_pdfs", "wait_for_parsing",
                              "check_file_status">>]
              ELSE IF ~in.up2
                   THEN [success |-> FALSE, file_id |-> "", raised |-> FALSE,
                         ops |-> <<"upload_pdf", "parse_all_pdfs",
                                   "wait_for_parsing", "check_file_status",
                                   "upload_pdf">>]
                   ELSE [success |-> in.wait2, file_id |-> "f2",
                         raised |-> FALSE,
                         ops |-> <<"upload_pdf", "parse_all_pdfs",
                                   "wait_for_parsing", "check_file_status",
                                   "upload_pdf", "parse_all_pdfs",
                                   "wait_for_parsing">>]


-----------------------------------------------------------------------------
(* Attachments, archives and local paths *)

\* An attachment as the mail adapter saved it. bank is the verdict of
\* BankStatementDetector.detect on its bytes and name.
File(name, hash, bank, empty) ==
    [kind |-> "file", name |-> name, hash |-> hash, bank |-> bank,
     empty |-> empty, members |-> <<>>, bad |-> FALSE]

Zip(name, hash, members, bad) ==
    [kind |-> "zip", name |-> name, hash |-> hash, bank |-> FALSE,
     empty |-> FALSE, members |-> members, bad |-> bad]

\* One entry of ZipFile.namelist(): sub is the directory part of the entry.
Member(sub, name, hash, bank, dot_underscore) ==
    [kind |-> "file", sub |-> sub, name |-> name, hash |-> hash, bank |-> bank,
     empty |-> FALSE, dot_underscore |-> dot_underscore]

Path(dir, sub, name) == [dir |-> dir, sub |-> sub, name |-> name]
DirSelf == FileName("", "")

download_dir == "downloads"
base_download_dir == "base"

DownloadPath(a) == Path(download_dir, "", a.name)
LocalPath(name) == Path(base_download_dir, "", name)
ExtractDir(z) == "extracted_" \o z.name.base
MemberPath(z, m) == Path(ExtractDir(z), m.sub, m.name)

\* str.lower() of a file extension
LowerExt(ext) ==
    CASE ext = ".PDF" -> ".pdf"
      [] ext = ".ZIP" -> ".zip"
      [] OTHER -> ext

bankable_extensions == {".pdf", ".doc", ".docx", ".csv"}
supported_extensions == {".pdf", ".doc", ".docx", ".csv", ".xls", ".xlsx"}
SystemFiles == {FileName(".DS_Store", ""), FileName("Thumbs", ".db"),
                FileName("desktop", ".ini")}

\* BankStatementDetector.detect(content, name)[0]
detect(f) == f.bank

\* ZipHandler.is_zip_file
is_zip_file(a, path, dsk) == path \in dsk /\ a.kind = "zip"

\* ZipHandler.extract_zip: the list it returns
ExtractedKept(m) ==
    /\ m.sub # "__MACOSX/"
    /\ ~m.dot_underscore
    /\ m.name \notin SystemFiles

\* an expander that lists the entries without opening the archive
extract_zip_unopened(z) == SelectSeq(z.members, ExtractedKept)

extract_zip(z) == IF z.bad THEN <<>> ELSE SelectSeq(z.members, ExtractedKept)

\* The two filters on entry names as ZipFile.namelist() spells them
\* (character strings with "/" between the components).
Slash == "/"
Dot == "."
StartsWith(s, prefix) ==
    Len(prefix) <= Len(s) /\ SubSeq(s, 1, Len(prefix)) = prefix

\* os.path.basename
Basename(path) ==
    LET slashes == {i \in DOMAIN path : path[i] = Slash}
    IN  IF slashes = {} THEN path
        ELSE LET k == CHOOSE i \in slashes : \A j \in slashes : j <= i
             IN  SubSeq(path, k + 1, Len(path))

\* os.path.splitext(path)[1]: from the last dot of the base name, unless
\* only dots precede it
SplitExt(path) ==
    LET b == Basename(path)
        dots == {i \in DOMAIN b : b[i] = Dot}
    IN  IF dots = {} THEN <<>>
        ELSE LET k == CHOOSE i \in dots : \A j \in dots : j <= i
             IN  IF \A j \in 1..(k - 1) : b[j] = Dot
                 THEN <<>>
                 ELSE SubSeq(b, k, Len(b))

MACOSX == <<"_", "_", "M", "A", "C", "O", "S", "X">>
DotUnderscore == <<".", "_">>
SystemFileNames ==
    {<<".", "D", "S", "_", "S", "t", "o", "r", "e">>, <<"T", "h", "u", "m", "b", "s", ".", "d", "b">>, <<"d", "e", "s", "k", "t", "o", "p", ".", "i", "n", "i">>}
SupportedExtensionNames ==
    {<<".", "p", "d", "f">>,
     <<".", "d", "o", "c">>,
     <<".", "d", "o", "c", "x">>,
     <<".", "c", "s", "v">>,
     <<".", "x", "l", "s">>,
     <<".", "x", "l", "s", "x">>}

\* extract_zip, the filter of lines 53-77 on one entry name; every entry
\* that is not a directory exists under extract_to after extractall
ExtractedNameKept(file_name) ==
    /\ ~EndsWith(file_name, <<Slash>>)
    /\ ~Contains(file_name, MACOSX)
    /\ ~StartsWith(Basename(file_name), DotUnderscore)
    /\ Basename(file_name) \notin SystemFileNames

\* get_supported_files, the filter on one path
SupportedNameKept(file_path) ==
    /\ ~StartsWith(Basename(file_path), DotUnderscore)
    /\ Lower(SplitExt(file_path)) \in SupportedExtensionNames

\* get_supported_files(extract_zip(zip_path, extract_dir)) as entry names;
\* a malformed archive raises BadZipFile, which leaves the empty list
expand_and_filter(bad, file_list) ==
    LET extracted_files == IF bad THEN <<>>
                           ELSE SelectSeq(file_list, ExtractedNameKept)
    IN  SelectSeq(extracted_files, SupportedNameKept)

\* what extract_zip leaves on disk: the directory and every entry
ExtractedOnDisk(z) ==
    {Path(ExtractDir(z), "", DirSelf)} \cup
    (IF z.bad THEN {} ELSE {MemberPath(z, z.members[i]) : i \in DOMAIN z.members})

\* ZipHandler.get_supported_files
SupportedKept(m) ==
    ~m.dot_underscore /\ LowerExt(m.name.ext) \in supported_extensions

get_supported_files(ms) == SelectSeq(ms, SupportedKept)

\* EmailProcessor._cleanup_directory
cleanup_directory(dsk, dir) == {p \in dsk : p.dir # dir}

\* EmailProcessor._cleanup_local_file
cleanup_local_file(dsk, path) == dsk \ {path}

-----------------------------------------------------------------------------
(* Inputs *)

Acme == <<"A", "c", "m", "e">>
AcmePadded == <<" ", "A", "c", "m", "e", " ">>
NON_BANK == <<"n", "o", "n", "_", "b", "a", "n", "k">>

OwnerStrings ==
    {Acme, AcmePadded, STR_UNKNOWN,
     <<"u", "n", "k", "n", "o", "w", "n">>,
     <<" ", "U", "n", "k", "n", "o", "w", "n">>,
     <<"U", "N", "K", "N", "O", "W", "N", " ">>,
     <<"u", "n", "k", "n", "o", "w", "n", "_", "c", "o", "m", "p", "a", "n", "y">>,
     <<>>, <<" ", " ">>}

Responses ==
    {Resp("none", FALSE, <<>>), Resp("empty", FALSE, <<>>),
     Resp("list", FALSE, <<>>)}
    \cup {Resp("list", TRUE, o) : o \in OwnerStrings}
    \cup {Resp("dict", TRUE, Acme), Resp("raises", FALSE, <<>>)}

\* the answers the extractor gives while emails are processed
PipelineResponses ==
    {Resp("dict", TRUE, Acme), Resp("list", TRUE, AcmePadded)}

Attempts(S) == [1..MAX_COMPANY_EXTRACTION_RETRIES -> S]

ResolveResults ==
    {extract_company_name_with_retry(rs) : rs \in Attempts(PipelineResponses)}

\* the store while emails are processed: it takes every upload_file call of a
\* run, or fails every one
UploadResults ==
    {upload_with_retry([i \in 1..max_retries |-> out]) : out \in {"ok", "fail"}}

\* the remote parser while emails are processed: after a failed wait the
\* status list shows the one file at "new" or at "failed"
HeronInputs ==
    [up1 : BOOLEAN, wait1 : BOOLEAN,
     status : {FileList(<<"new">>), FileList(<<"failed">>)},
     up2 : BOOLEAN, wait2 : BOOLEAN]

HeronResults == {upload_and_parse_with_retry(i) : i \in HeronInputs}

Stmt1 == File(FileName("stmt", ".pdf"), "h1", TRUE, FALSE)
Doc1 == File(FileName("notes", ".pdf"), "h2", FALSE, FALSE)
Empty1 == File(FileName("empty", ".pdf"), "h0", FALSE, TRUE)
Pack1 ==
    Zip(FileName("pack", ".zip"), "h3",
        <<Member("", FileName("terms", ".docx"), "h4", FALSE, FALSE),
          Member("", FileName("acct", ".PDF"), "h5", TRUE, FALSE),
          Member("__MACOSX/", FileName("._acct", ".PDF"), "h6", FALSE, TRUE),
          Member("", FileName(".DS_Store", ""), "h7", FALSE, FALSE)>>,
        FALSE)
Misc1 ==
    Zip(FileName("misc", ".zip"), "h8",
        <<Member("", FileName("readme", ".txt"), "h9", FALSE, FALSE)>>, FALSE)
\* an archive with a damaged directory: is_zipfile accepts it, ZipFile raises
Bad1 ==
    Zip(FileName("bad", ".zip"), "h10",
        <<Member("", FileName("lost", ".pdf"), "h11", TRUE, FALSE)>>, TRUE)

Catalogue == {Stmt1, Doc1, Empty1, Pack1, Misc1, Bad1}

\* two attachments of one email may carry the same name: the adapter then
\* saves both to one path, the later bytes win, and the path is listed twice
Emails ==
    UNION {[1..n -> Catalogue] : n \in 0..MaxFiles}

MessageId(n) == "m" \o ToString(n)

\* folders a previous run may have left in the store
InitialFolders == {FolderName(Acme, 0)}

-----------------------------------------------------------------------------
(* State *)

Target(folder, sub) == [folder |-> folder, sub |-> sub]
NoTarget == Target(NoFolder, "")

TypeOK ==
    /\ pc \in {"idle", "prescan", "process", "zip", "done",
              "resolve", "resolved", "derive", "derived", "ledger",
              "detect", "detected", "poll", "polled",
              "unzip", "unzipped", "upload", "uploaded",
              "parse", "parsed", "next", "name", "folder", "log"}
    /\ emailsDone \in 0..MaxEmails
    /\ email_pdf_uploaded \in BOOLEAN
    /\ scanIdx \in 1..(MaxFiles + 1)
    /\ filesDone \in 0..MaxFiles

\* a library call: its arguments, the kind of ledger file it found, whether
\* it raised, and what it returned
Call(op, args, store, raised, result) ==
    [op |-> op, args |-> args, store |-> store, raised |-> raised,
     result |-> result]
NoCall == Call("", <<>>, "", FALSE, <<>>)

\* a message of the mailbox: whether it has arrived, its isRead flag, whether
\* it passes is_relevant, and how the latest download of its attachments went
Message(arrived, isRead, relevant, retrieved) ==
    [arrived |-> arrived, isRead |-> isRead, relevant |-> relevant,
     retrieved |-> retrieved]
Messages == 1..MaxMessages
NoMailbox == [m \in Messages |-> Message(FALSE, FALSE, FALSE, "none")]

\* the two threads that call process_emails_job: the main thread (the initial
\* check) and the thread of the BackgroundScheduler's interval job
Workers == {"main", "scheduler"}
Job(at, emails, cur) == [pc |-> at, emails |-> emails, cur |-> cur]
NoJobs == [w \in Workers |-> Job(IF w = "main" THEN "start" ELSE "idle", <<>>, 0)]

NoEmail == [id |-> "", attachments |-> <<>>]
NoZip == Zip(FileName("", ""), "", <<>>, FALSE)

NoLast ==
    [name |-> FileName("", ""), bank |-> FALSE, known |-> FALSE, exit |-> "",
     outcomes |-> <<>>, upload_called |-> FALSE, uploaded_to |-> NoTarget,
     resolver_calls |-> 0, resolved |-> None, folder_derived |-> FALSE,
     remote |-> <<>>, check |-> "", status |-> "", company |-> None]

Init ==
    /\ ledger = <<>>
    /\ disk = {}
    /\ folders \in SUBSET InitialFolders
    /\ uploads = <<>>
    /\ heronUsers = {}
    /\ extracted_company_name = None
    /\ timestamped_folder = NoFolder
    /\ email_pdf_uploaded = FALSE
    /\ pc = "idle"
    /\ email = NoEmail
    /\ scanIdx = 1
    /\ bank_statement_files = <<>>
    /\ non_bank_files = <<>>
    /\ queue = <<>>
    /\ zipCur = NoZip
    /\ zipQueue = <<>>
    /\ emailsDone = 0
    /\ filesDone = 0
    /\ handled = <<>>
    /\ last = NoLast
    /\ folderChecks = 0
    /\ owners = <<>>
    /\ resolved = None
    /\ ledger_kind = "list"
    /\ mailbox = NoMailbox /\ jobs = NoJobs
    /\ call = NoCall

-----------------------------------------------------------------------------
(* process_email: entry and pre-scan *)

\* a process_email that keeps the caches of the email before
ProcessEmailBegin_keep_caches ==
    /\ pc \in {"idle", "done"}
    /\ emailsDone < MaxEmails
    /\ \E atts \in Emails :
        /\ filesDone + Len(atts) <= MaxFiles
        /\ filesDone' = filesDone + Len(atts)
        /\ email' = [id |-> MessageId(emailsDone + 1), attachments |-> atts]
        /\ disk' = disk \cup {DownloadPath(atts[i]) : i \in DOMAIN atts}
        /\ emailsDone' = emailsDone + 1
        /\ handled' = <<>>
        /\ last' = NoLast
        /\ scanIdx' = 1
        /\ bank_statement_files' = <<>>
        /\ non_bank_files' = <<>>
        /\ queue' = <<>>
        /\ pc' = IF atts = <<>> THEN "done" ELSE "prescan"
        /\ UNCHANGED <<extracted_company_name, timestamped_folder,
                       email_pdf_uploaded>>
    /\ UNCHANGED <<ledger, folders, uploads, heronUsers, zipCur, zipQueue,
                   folderChecks, owners, resolved>>
    /\ UNCHANGED <<ledger_kind, call, mailbox, jobs>>

\* The adapter saved the attachments and process_email is entered. With no
\* attachments it returns at once; otherwise it resets the caches.
ProcessEmailBegin ==
    /\ pc \in {"idle", "done"}
    /\ emailsDone < MaxEmails
    /\ \E atts \in Emails :
        /\ filesDone + Len(atts) <= MaxFiles
        /\ filesDone' = filesDone + Len(atts)
        /\ email' = [id |-> MessageId(emailsDone + 1), attachments |-> atts]
        /\ disk' = disk \cup {DownloadPath(atts[i]) : i \in DOMAIN atts}
        /\ emailsDone' = emailsDone + 1
        /\ handled' = <<>>
        /\ last' = NoLast
        /\ scanIdx' = 1
        /\ bank_statement_files' = <<>>
        /\ non_bank_files' = <<>>
        /\ queue' = <<>>
        /\ IF atts = <<>>
           THEN /\ pc' = "done"
                /\ UNCHANGED <<extracted_company_name, timestamped_folder,
                               email_pdf_uploaded>>
           ELSE /\ pc' = "prescan"
                /\ extracted_company_name' = None
                /\ timestamped_folder' = NoFolder
                /\ email_pdf_uploaded' = FALSE
    /\ UNCHANGED <<ledger, folders, uploads, heronUsers, zipCur, zipQueue,
                   folderChecks, owners, resolved>>
    /\ UNCHANGED <<ledger_kind, call, mailbox, jobs>>

\* the verdict of the pre-scan on one attachment
PreScanIsBank(a) ==
    IF is_zip_file(a, DownloadPath(a), disk)
    THEN LET supported_files == get_supported_files(extract_zip(a))
         IN  \E i \in DOMAIN supported_files :
                /\ LowerExt(supported_files[i].name.ext) \in bankable_extensions
                /\ detect(supported_files[i])
    ELSE /\ LowerExt(a.name.ext) \in bankable_extensions
         /\ DownloadPath(a) \in disk
         /\ detect(a)

\* the scan opens a file: the attachment itself, or a member of the archive
PreScanReads(a) ==
    IF is_zip_file(a, DownloadPath(a), disk)
    THEN LET supported_files == get_supported_files(extract_zip(a))
         IN  \E i \in DOMAIN supported_files :
                LowerExt(supported_files[i].name.ext) \in bankable_extensions
    ELSE LowerExt(a.name.ext) \in bankable_extensions

\* prescan_{time}_{file_name}: the directory an archive is expanded into for
\* the scan; it stays when the scan raises before _cleanup_directory
PrescanDir(a) == "prescan_" \o a.name.base
PreScanLeftover(a) ==
    IF is_zip_file(a, DownloadPath(a), disk)
    THEN {Path(PrescanDir(a), "", DirSelf)} ELSE {}

\* a pre-scan that forgets an attachment whose scan raised
PreScan_drop_on_error ==
    /\ pc = "prescan"
    /\ scanIdx <= Len(email.attachments)
    /\ LET a == email.attachments[scanIdx]
       IN  \E io_error \in (IF PreScanReads(a) THEN BOOLEAN ELSE {FALSE}) :
             /\ call' = Call("prescan", <<a>>, "", io_error, <<>>)
             /\ IF io_error
                THEN /\ UNCHANGED <<bank_statement_files, non_bank_files>>
                     /\ disk' = disk \cup PreScanLeftover(a)
                ELSE /\ IF PreScanIsBank(a)
                        THEN /\ bank_statement_files' =
                                    Append(bank_statement_files, a)
                             /\ UNCHANGED non_bank_files
                        ELSE /\ non_bank_files' = Append(non_bank_files, a)
                             /\ UNCHANGED bank_statement_files
                     /\ UNCHANGED disk
    /\ scanIdx' = scanIdx + 1
    /\ UNCHANGED <<ledger, folders, uploads, heronUsers,
                   extracted_company_name, timestamped_folder,
                   email_pdf_uploaded, pc, email, queue, zipCur, zipQueue,
                   emailsDone, filesDone, handled, last, folderChecks, owners, resolved>>
    /\ UNCHANGED <<ledger_kind, mailbox, jobs>>

\* one iteration of the pre-scan loop; the prescan_ directory it makes for an
\* archive is removed again before the iteration ends, unless reading a
\* file raised: then the except clause puts the attachment with the non-bank
\* files
PreScan ==
    /\ pc = "prescan"
    /\ scanIdx <= Len(email.attachments)
    /\ LET a == email.attachments[scanIdx]
       IN  \E io_error \in (IF PreScanReads(a) THEN BOOLEAN ELSE {FALSE}) :
             /\ call' = Call("prescan", <<a>>, "", io_error, <<>>)
             /\ IF io_error
                THEN /\ non_bank_files' = Append(non_bank_files, a)
                     /\ UNCHANGED bank_statement_files
                     /\ disk' = disk \cup PreScanLeftover(a)
                ELSE /\ IF PreScanIsBank(a)
                        THEN /\ bank_statement_files' =
                                    Append(bank_statement_files, a)
                             /\ UNCHANGED non_bank_files
                        ELSE /\ non_bank_files' = Append(non_bank_files, a)
                             /\ UNCHANGED bank_statement_files
                     /\ UNCHANGED disk
    /\ scanIdx' = scanIdx + 1
    /\ UNCHANGED <<ledger, folders, uploads, heronUsers,
                   extracted_company_name, timestamped_folder,
                   email_pdf_uploaded, pc, email, queue, zipCur, zipQueue,
                   emailsDone, filesDone, handled, last, folderChecks, owners, resolved>>
    /\ UNCHANGED <<ledger_kind, mailbox, jobs>>

\* end of phase 1: bank statements first, then the non-bank files
\* the end of the pre-scan and the start of phase 2 (lines 591-650): the
\* statements are processed first, then the other attachments
PreScanDone ==
    /\ pc = "prescan"
    /\ scanIdx > Len(email.attachments)
    /\ pc' = "process"
    /\ queue' = bank_statement_files \o non_bank_files
    /\ call' = NoCall
    /\ UNCHANGED <<ledger, disk, folders, uploads, heronUsers,
                   extracted_company_name, timestamped_folder,
                   email_pdf_uploaded, email, scanIdx, bank_statement_files,
                   non_bank_files, zipCur, zipQueue, emailsDone, filesDone, handled, last,
                   folderChecks, owners, resolved>>
    /\ UNCHANGED <<ledger_kind, mailbox, jobs>>

-----------------------------------------------------------------------------
(* The per-file handler: EmailProcessor._process_single_file *)

Upload(target, file_name, hash) ==
    [target |-> target, file_name |-> file_name, hash |-> hash,
     message_id |-> email.id]

\* what one run of the handler did, and what it leaves behind
Outcome(f, file_path) ==
    [name |-> get_unique_filename(file_path.name, ledger),
     src |-> file_path,
     hash |-> f.hash,
     bank |-> FALSE,
     known |-> is_duplicate(f.hash, ledger),
     exit |-> "",
     outcomes |-> <<>>,
     upload_called |-> FALSE,
     uploaded_to |-> NoTarget,
     resolver_calls |-> 0,
     resolved |-> None,
     folder_derived |-> FALSE,
     remote |-> <<>>,
     check |-> "",
     status |-> "",
     company |-> extracted_company_name,
     folder |-> timestamped_folder,
     pdf |-> email_pdf_uploaded,
     users |-> heronUsers,
     made |-> {},
     sent |-> <<>>,
     checks |-> folderChecks]

\* the finally clause: both local copies are removed
HandlerCleanup(dsk, file_path, local_path) ==
    LET d1 == cleanup_local_file(dsk, local_path)
    IN  IF file_path # local_path THEN cleanup_local_file(d1, file_path) ELSE d1

\* the handler returns: o.outcomes are the outcomes it logged, in order
Return(o) ==
    /\ ledger' = ledger \o
            [i \in DOMAIN o.outcomes |->
                Entry(email.id, o.name,
                      IF o.outcomes[i] = "Error" /\ o.exit = "error_before_hash"
                      THEN "N/A" ELSE o.hash, o.outcomes[i])]
    /\ disk' = HandlerCleanup(disk, o.src, LocalPath(o.name))
    /\ folders' = folders \cup o.made
    /\ uploads' = uploads \o o.sent
    /\ heronUsers' = o.users
    /\ extracted_company_name' = o.company
    /\ timestamped_folder' = o.folder
    /\ email_pdf_uploaded' = o.pdf
    /\ folderChecks' = o.checks
    /\ handled' = Append(handled, [name |-> o.name, bank |-> o.bank,
                                    exit |-> o.exit])
    /\ last' = [name |-> o.name, bank |-> o.bank, known |-> o.known,
                exit |-> o.exit, outcomes |-> o.outcomes,
                upload_called |-> o.upload_called, uploaded_to |-> o.uploaded_to,
                resolver_calls |-> o.resolver_calls, resolved |-> o.resolved,
                folder_derived |-> o.folder_derived, remote |-> o.remote,
                check |-> o.check, status |-> o.status, company |-> o.company]

\* _upload_email_pdf, called while the summary is not uploaded yet:
\* generate_email_pdf may raise (caught), else the PDF is uploaded with retry
EmailPdfResults ==
    {[ok |-> FALSE, attempts |-> 0, trace |-> <<>>]} \cup UploadResults

\* a handler that uploads the summary after every statement, flag or not
AfterStatementUpload_always(o, company_name) ==
    \E svc \in ServiceAnswers :
      LET eu == ensure_user(company_name, heronUsers, svc)
      IN  \E hp \in (IF eu.raised THEN {[success |-> FALSE, file_id |-> "",
                                          ops |-> <<>>]}
                     ELSE HeronResults) :
           \E pdf \in EmailPdfResults :
             LET parse_status == IF ~eu.raised /\ hp.success
                                 THEN "Parsed" ELSE "HeronError"
                 summary == Upload(Target(o.folder, "summary_mail"),
                                   FileName("email_summary", ".pdf"), "")
             IN  Return([o EXCEPT
                    !.users = eu.users,
                    !.remote = eu.ops \o hp.ops,
                    !.check = eu.check,
                    !.status = parse_status,
                    !.pdf = email_pdf_uploaded \/ pdf.ok,
                    !.sent = IF pdf.ok THEN o.sent \o <<summary>> ELSE o.sent,
                    !.outcomes = <<parse_status>>,
                    !.exit = "done"])

\* CASE 1, from the Heron block to the ledger entry (lines 394-428)
AfterStatementUpload(o, company_name) ==
    \E svc \in ServiceAnswers :
      LET eu == ensure_user(company_name, heronUsers, svc)
      IN  \E hp \in (IF eu.raised THEN {[success |-> FALSE, file_id |-> "",
                                          ops |-> <<>>]}
                     ELSE HeronResults) :
           \E pdf \in (IF email_pdf_uploaded THEN {[ok |-> FALSE, attempts |-> 0]}
                       ELSE EmailPdfResults) :
             LET parse_status == IF ~eu.raised /\ hp.success
                                 THEN "Parsed" ELSE "HeronError"
                 summary == Upload(Target(o.folder, "summary_mail"),
                                   FileName("email_summary", ".pdf"), "")
             IN  Return([o EXCEPT
                    !.users = eu.users,
                    !.remote = eu.ops \o hp.ops,
                    !.check = eu.check,
                    !.status = parse_status,
                    !.pdf = email_pdf_uploaded \/ pdf.ok,
                    !.sent = IF pdf.ok THEN o.sent \o <<summary>> ELSE o.sent,
                    !.outcomes = <<parse_status>>,
                    !.exit = "done"])

\* a handler that derives the folder anew for every statement
WithCompany_rederive(o, company_name) ==
    LET d == create_timestamped_folder(company_name, folders)
        company_folder == Target(d.name, "Dataroom")
        o1 == [o EXCEPT !.company = company_name, !.folder = d.name,
                        !.checks = d.checks,
                        !.folder_derived = TRUE,
                        !.upload_called = TRUE]
    IN  \E up \in UploadResults :
          IF ~up.ok
          THEN Return([o1 EXCEPT
                    !.made = {},
                    !.outcomes = <<"UploadFailed">>,
                    !.exit = "upload_failed"])
          ELSE AfterStatementUpload(
                  [o1 EXCEPT !.made = {d.name},
                             !.uploaded_to = company_folder,
                             !.sent = <<Upload(company_folder, o.name, o.hash)>>],
                  company_name)

\* what folder_exists reports of the store during one derivation: the
\* folders that exist, or nothing at all when its requests fail (a failed
\* request is answered False, sharepoint_uploader.py 247-255)
Reported(store) == {store, {}}

\* CASE 1 once the company name is known (lines 377-392)
WithCompany(o, company_name) ==
  \E seen \in (IF timestamped_folder # NoFolder THEN {folders}
               ELSE Reported(folders)) :
    LET d == IF timestamped_folder # NoFolder
             THEN [name |-> timestamped_folder, checks |-> folderChecks]
             ELSE create_timestamped_folder(company_name, seen)
        company_folder == Target(d.name, "Dataroom")
        o1 == [o EXCEPT !.company = company_name, !.folder = d.name,
                        !.checks = d.checks,
                        !.folder_derived = (timestamped_folder = NoFolder),
                        !.upload_called = TRUE]
    IN  \E up \in UploadResults :
          IF ~up.ok
          THEN Return([o1 EXCEPT
                    !.made = {},
                    !.outcomes = <<"UploadFailed">>,
                    !.exit = "upload_failed"])
          ELSE AfterStatementUpload(
                  [o1 EXCEPT !.made = {d.name},
                             !.uploaded_to = company_folder,
                             !.sent = <<Upload(company_folder, o.name, o.hash)>>],
                  company_name)

\* a handler that files the statement under a placeholder name when the
\* resolver gives up, instead of stopping
BankStatement_fallback(o) ==
    IF extracted_company_name # None
    THEN WithCompany(o, extracted_company_name)
    ELSE \E r \in ResolveResults :
           IF r.name = None
           THEN WithCompany([o EXCEPT !.resolver_calls = r.calls],
                            STR_UNKNOWN_COMPANY)
           ELSE WithCompany([o EXCEPT !.resolver_calls = r.calls,
                                      !.resolved = r.name], r.name)

\* CASE 1: BANK STATEMENT (lines 361-375)
BankStatement(o) ==
    IF extracted_company_name # None
    THEN WithCompany(o, extracted_company_name)
    ELSE \E r \in ResolveResults :
           IF r.name = None
           THEN Return([o EXCEPT !.resolver_calls = r.calls,
                                 !.outcomes = <<"CompanyExtractionFailed">>,
                                 !.exit = "company_extraction_failed"])
           ELSE WithCompany([o EXCEPT !.resolver_calls = r.calls,
                                      !.resolved = r.name], r.name)

\* a handler that treats a non-statement like a statement
NonBankFile_as_statement(o) == BankStatement(o)

\* a handler that files every non-statement in the generic folder
NonBankFile_generic(o) ==
    \E up \in UploadResults :
      LET non_bank_folder == Target(FolderName(NON_BANK, 0), "")
      IN  IF up.ok
          THEN Return([o EXCEPT
                   !.upload_called = TRUE,
                   !.made = {non_bank_folder.folder},
                   !.uploaded_to = non_bank_folder,
                   !.sent = <<Upload(non_bank_folder, o.name, o.hash)>>,
                   !.outcomes = <<"NonBank_Folder">>,
                   !.exit = "done"])
          ELSE Return([o EXCEPT
                   !.upload_called = TRUE,
                   !.made = {},
                   !.exit = "upload_failed"])

\* CASE 2: NON-BANK FILE (lines 431-465)
NonBankFile(o) ==
    \E up \in UploadResults :
      IF timestamped_folder # NoFolder /\ extracted_company_name # None
      THEN LET company_folder == Target(timestamped_folder, "Dataroom")
           IN  IF up.ok
               THEN Return([o EXCEPT
                        !.upload_called = TRUE,
                        !.made = {timestamped_folder},
                        !.uploaded_to = company_folder,
                        !.sent = <<Upload(company_folder, o.name, o.hash)>>,
                        !.status = "NonBankFile",
                        !.outcomes = <<"NonBankFile_Dataroom">>,
                        !.exit = "done"])
               ELSE Return([o EXCEPT
                        !.upload_called = TRUE,
                        !.made = {},
                        !.exit = "upload_failed"])
      ELSE LET non_bank_folder == Target(FolderName(NON_BANK, 0), "")
           IN  IF up.ok
               THEN Return([o EXCEPT
                        !.upload_called = TRUE,
                        !.made = {non_bank_folder.folder},
                        !.uploaded_to = non_bank_folder,
                        !.sent = <<Upload(non_bank_folder, o.name, o.hash)>>,
                        !.outcomes = <<"NonBank_Folder">>,
                        !.exit = "done"])
               ELSE Return([o EXCEPT
                        !.upload_called = TRUE,
                        !.made = {},
                        !.exit = "upload_failed"])

\* a handler whose except clause lets the error go without a ledger entry
ExceptClause_silent(o) ==
    Return([o EXCEPT !.exit = "error_before_hash"])

\* the except clause (lines 467-470), entered before the hash was computed
ExceptClause(o) ==
    Return([o EXCEPT !.outcomes = <<"Error">>, !.exit = "error_before_hash"])

\* _process_single_file(file_path, email_data) on the bytes f
process_single_file(f, file_path) ==
    LET o == Outcome(f, file_path)
    IN  IF file_path \notin disk
        THEN Return([o EXCEPT !.exit = "source_not_found"])
        ELSE \E io_error \in BOOLEAN :
               IF io_error
               THEN \* open(local_path, "wb") raises
                    ExceptClause(o)
               ELSE IF f.empty
                    THEN Return([o EXCEPT !.exit = "invalid_local_file"])
                    ELSE LET is_bank ==
                                 IF LowerExt(o.name.ext) \notin bankable_extensions
                                 THEN FALSE ELSE detect(f)
                         IN  IF is_bank
                             THEN BankStatement([o EXCEPT !.bank = TRUE])
                             ELSE NonBankFile(o)

-----------------------------------------------------------------------------
(* process_email, phase 2: process_attachment and the archive handler *)

\* process_attachment on an attachment that is not (or no longer) an archive
ProcessSingleFile ==
    /\ pc = "process"
    /\ queue # <<>>
    /\ LET a == Head(queue)
       IN  /\ ~is_zip_file(a, DownloadPath(a), disk)
           /\ process_single_file(a, DownloadPath(a))
    /\ queue' = Tail(queue)
    /\ UNCHANGED <<pc, email, scanIdx, bank_statement_files, non_bank_files,
                   zipCur, zipQueue, emailsDone, filesDone, owners, resolved>>
    /\ UNCHANGED <<ledger_kind, call, mailbox, jobs>>

\* _process_zip_attachment up to the two processing loops (lines 236-281):
\* extract, filter, split the members into bank statements and the rest
ProcessZipBegin ==
    /\ pc = "process"
    /\ queue # <<>>
    /\ LET z == Head(queue)
           extracted_files == extract_zip(z)
           supported_files == get_supported_files(extracted_files)
           bank_statements == SelectSeq(supported_files, detect)
           non_bank == SelectSeq(supported_files, LAMBDA m : ~detect(m))
       IN  /\ is_zip_file(z, DownloadPath(z), disk)
           /\ disk' = disk \cup ExtractedOnDisk(z)
           /\ IF extracted_files = <<>> \/ supported_files = <<>>
              THEN /\ queue' = Tail(queue)
                   /\ UNCHANGED <<pc, zipCur, zipQueue>>
              ELSE /\ pc' = "zip"
                   /\ zipCur' = z
                   /\ zipQueue' = bank_statements \o non_bank
                   /\ UNCHANGED queue
    /\ UNCHANGED <<ledger, folders, uploads, heronUsers, extracted_company_name,
                   timestamped_folder, email_pdf_uploaded, email, scanIdx,
                   bank_statement_files, non_bank_files, emailsDone, filesDone, handled, last,
                   folderChecks, owners, resolved>>
    /\ UNCHANGED <<ledger_kind, call, mailbox, jobs>>

\* one iteration of either processing loop (lines 283-300)
ProcessZipMember ==
    /\ pc = "zip"
    /\ zipQueue # <<>>
    /\ LET m == Head(zipQueue)
       IN  IF MemberPath(zipCur, m) \in disk
           THEN process_single_file(m, MemberPath(zipCur, m))
           ELSE UNCHANGED <<ledger, disk, folders, uploads, heronUsers,
                            extracted_company_name, timestamped_folder,
                            email_pdf_uploaded, handled, last, folderChecks>>
    /\ zipQueue' = Tail(zipQueue)
    /\ UNCHANGED <<pc, email, scanIdx, bank_statement_files, non_bank_files,
                   queue, zipCur, emailsDone, filesDone, owners, resolved>>
    /\ UNCHANGED <<ledger_kind, call, mailbox, jobs>>

\* the end of _process_zip_attachment (lines 302-311)
ProcessZipEnd ==
    /\ pc = "zip"
    /\ zipQueue = <<>>
    /\ LET zip_path == DownloadPath(zipCur)
           d1 == cleanup_directory(disk, ExtractDir(zipCur))
           zip_hash == IF zip_path \in d1 THEN zipCur.hash ELSE "N/A"
       IN  /\ disk' = cleanup_local_file(d1, zip_path)
           /\ ledger' = log_attachment(ledger, email.id, zipCur.name, zip_hash,
                                       "ZIPProcessed")
    /\ pc' = "process"
    /\ queue' = Tail(queue)
    /\ zipCur' = NoZip
    /\ UNCHANGED <<folders, uploads, heronUsers, extracted_company_name,
                   timestamped_folder, email_pdf_uploaded, email, scanIdx,
                   bank_statement_files, non_bank_files, zipQueue, emailsDone, filesDone,
                   handled, last, folderChecks, owners, resolved>>
    /\ UNCHANGED <<ledger_kind, call, mailbox, jobs>>

\* process_email returns
ProcessEmailEnd ==
    /\ pc = "process"
    /\ queue = <<>>
    /\ pc' = "done"
    /\ UNCHANGED <<ledger, disk, folders, uploads, heronUsers,
                   extracted_company_name, timestamped_folder,
                   email_pdf_uploaded, email, scanIdx, bank_statement_files,
                   non_bank_files, queue, zipCur, zipQueue, emailsDone, filesDone, handled, last,
                   folderChecks, owners, resolved>>
    /\ UNCHANGED <<ledger_kind, call, mailbox, jobs>>

Next ==
    \/ ProcessEmailBegin
    \/ PreScan
    \/ PreScanDone
    \/ ProcessSingleFile
    \/ ProcessZipBegin
    \/ ProcessZipMember
    \/ ProcessZipEnd
    \/ ProcessEmailEnd

Spec == Init /\ [][Next]_vars

-----------------------------------------------------------------------------
(* The company resolver on its own: every pair of extractor answers *)

InitResolver ==
    /\ ledger = <<>> /\ disk = {} /\ folders = {} /\ uploads = <<>>
    /\ heronUsers = {} /\ extracted_company_name = None
    /\ timestamped_folder = NoFolder /\ email_pdf_uploaded = FALSE
    /\ email = NoEmail /\ scanIdx = 1 /\ bank_statement_files = <<>>
    /\ non_bank_files = <<>> /\ queue = <<>> /\ zipCur = NoZip
    /\ zipQueue = <<>> /\ emailsDone = 0 /\ filesDone = 0 /\ handled = <<>>
    /\ last = NoLast /\ folderChecks = 0
    /\ pc = "resolve"
    /\ owners \in Attempts(Responses)
    /\ resolved = None
    /\ ledger_kind = "list"
    /\ mailbox = NoMailbox /\ jobs = NoJobs
    /\ call = NoCall

\* company_name = self._extract_company_name_with_retry(local_path)
Resolve ==
    /\ pc = "resolve"
    /\ LET r == extract_company_name_with_retry(owners)
       IN  /\ resolved' = r.name
           /\ call' = Call("extract_company_name_with_retry", <<owners>>, "",
                           r.raised, r)
    /\ pc' = "resolved"
    /\ UNCHANGED <<ledger, disk, folders, uploads, heronUsers,
                   extracted_company_name, timestamped_folder,
                   email_pdf_uploaded, email, scanIdx, bank_statement_files,
                   non_bank_files, queue, zipCur, zipQueue, emailsDone,
                   filesDone, handled, last, folderChecks, owners>>
    /\ UNCHANGED <<ledger_kind, mailbox, jobs>>

NextResolver == Resolve

SpecResolver == InitResolver /\ [][NextResolver]_vars

-----------------------------------------------------------------------------
(* Folder derivation on its own: stores with up to 102 colliding folders *)

StoreOf(company, counters) == {FolderName(company, n) : n \in counters}

\* the base name and its first k - 1 suffixes exist, with or without a few
\* further names beyond the first gap
FolderStores ==
    {StoreOf(Acme, (0..(k - 1)) \cup extra) :
        k \in 0..(FolderCounterLimit + 2),
        extra \in SUBSET {1, 3, FolderCounterLimit, FolderCounterLimit + 1}}

InitFolder ==
    /\ ledger = <<>> /\ disk = {} /\ uploads = <<>>
    /\ heronUsers = {} /\ extracted_company_name = Acme
    /\ timestamped_folder = NoFolder /\ email_pdf_uploaded = FALSE
    /\ email = NoEmail /\ scanIdx = 1 /\ bank_statement_files = <<>>
    /\ non_bank_files = <<>> /\ queue = <<>> /\ zipCur = NoZip
    /\ zipQueue = <<>> /\ emailsDone = 0 /\ filesDone = 0 /\ handled = <<>>
    /\ last = NoLast /\ folderChecks = 0 /\ owners = <<>> /\ resolved = None
    /\ pc = "derive"
    /\ folders \in FolderStores
    /\ ledger_kind = "list"
    /\ mailbox = NoMailbox /\ jobs = NoJobs
    /\ call = NoCall

\* timestamped_folder = self._create_timestamped_folder(company_name)
\* self._timestamped_folder = timestamped_folder
DeriveFolder ==
    /\ pc = "derive"
    /\ LET d == create_timestamped_folder(extracted_company_name, folders)
       IN  /\ timestamped_folder' = d.name
           /\ folderChecks' = d.checks
    /\ pc' = "derived"
    /\ UNCHANGED <<ledger, disk, folders, uploads, heronUsers,
                   extracted_company_name, email_pdf_uploaded, email, scanIdx,
                   bank_statement_files, non_bank_files, queue, zipCur,
                   zipQueue, emailsDone, filesDone, handled, last, owners,
                   resolved>>
    /\ UNCHANGED <<ledger_kind, call, mailbox, jobs>>

NextFolder == DeriveFolder

SpecFolder == InitFolder /\ [][NextFolder]_vars

-----------------------------------------------------------------------------
(* The ledger functions on their own: every small ledger file *)

MaxLedger == 3

LedgerNames ==
    {FileName("stmt", ".pdf"), FileName("stmt(1)", ".pdf"),
     FileName("stmt(2)", ".pdf")}
LedgerCandidates ==
    {FileName("stmt", ".pdf"), FileName("stmt(1)", ".pdf"), FileName("notes", "")}
LedgerHashes == {"h1", "h2"}
LedgerEntries ==
    {Entry("m1", n, h, "Parsed") : n \in LedgerNames, h \in LedgerHashes}
Ledgers == UNION {[1..n -> LedgerEntries] : n \in 0..MaxLedger}

InitLedger ==
    /\ disk = {} /\ folders = {} /\ uploads = <<>>
    /\ heronUsers = {} /\ extracted_company_name = None
    /\ timestamped_folder = NoFolder /\ email_pdf_uploaded = FALSE
    /\ email = NoEmail /\ scanIdx = 1 /\ bank_statement_files = <<>>
    /\ non_bank_files = <<>> /\ queue = <<>> /\ zipCur = NoZip
    /\ zipQueue = <<>> /\ emailsDone = 0 /\ filesDone = 0 /\ handled = <<>>
    /\ last = NoLast /\ folderChecks = 0 /\ owners = <<>> /\ resolved = None
    /\ pc = "ledger"
    /\ ledger_kind \in LedgerKinds
    /\ mailbox = NoMailbox /\ jobs = NoJobs
    /\ ledger \in (IF ledger_kind = "list" THEN Ledgers ELSE {<<>>})
    /\ call = NoCall

LedgerFrame ==
    UNCHANGED <<disk, folders, uploads, heronUsers, extracted_company_name,
                timestamped_folder, email_pdf_uploaded, pc, email, scanIdx,
                bank_statement_files, non_bank_files, queue, zipCur, zipQueue,
                emailsDone, filesDone, handled, last, folderChecks, owners,
                resolved, mailbox, jobs>>

\* is_duplicate(file_hash): iterating a value that is not a list raises
IsDuplicate(file_hash) ==
    /\ pc = "ledger"
    /\ LET r == ensure_ledger(ledger_kind, ledger)
           raised == r.raised \/ ~r.is_list
       IN  /\ call' = Call("is_duplicate", <<file_hash>>, ledger_kind, raised,
                           IF raised THEN FALSE
                           ELSE is_duplicate(file_hash, r.value))
           /\ ledger_kind' = r.kind
    /\ UNCHANGED ledger
    /\ LedgerFrame

\* get_unique_filename(original_filename)
GetUniqueFilename(original_filename) ==
    /\ pc = "ledger"
    /\ LET r == ensure_ledger(ledger_kind, ledger)
           raised == r.raised \/ ~r.is_list
       IN  /\ call' = Call("get_unique_filename", <<original_filename>>,
                           ledger_kind, raised,
                           IF raised THEN original_filename
                           ELSE get_unique_filename(original_filename, r.value))
           /\ ledger_kind' = r.kind
    /\ UNCHANGED ledger
    /\ LedgerFrame

\* log_attachment(...): append raises on a value that is not a list;
\* otherwise the whole list is written back
LogAttachment(e) ==
    /\ pc = "ledger"
    /\ Len(ledger) < MaxLedger
    /\ LET r == ensure_ledger(ledger_kind, ledger)
           raised == r.raised \/ ~r.is_list
       IN  /\ call' = Call("log_attachment", <<e>>, ledger_kind, raised, <<>>)
           /\ IF raised
              THEN /\ ledger_kind' = r.kind
                   /\ UNCHANGED ledger
              ELSE /\ ledger_kind' = "list"
                   /\ ledger' = log_attachment(r.value, e.message_id,
                                               e.file_name, e.hash, e.outcome)
    /\ LedgerFrame

NextLedger ==
    \/ \E h \in LedgerHashes : IsDuplicate(h)
    \/ \E n \in LedgerCandidates : GetUniqueFilename(n)
    \/ \E e \in LedgerEntries : LogAttachment(e)

SpecLedger == InitLedger /\ [][NextLedger]_vars

-----------------------------------------------------------------------------
(* The classifier on its own: texts of up to MaxPhrases phrases *)

MaxPhrases == 3

Phrases ==
    {<<"M", "o", "n", "t", "h", "l", "y", " ", "S", "t", "a", "t", "e", "m", "e", "n", "t">>,
     <<"B", "e", "g", "i", "n", "n", "i", "n", "g", " ", "B", "a", "l", "a", "n", "c", "e">>,
     <<"E", "n", "d", "i", "n", "g", " ", "B", "a", "l", "a", "n", "c", "e">>,
     <<"C", "h", "e", "c", "k", "i", "n", "g", " ", "A", "c", "c", "o", "u", "n", "t">>,
     <<"a", "c", "c", "o", "u", "n", "t", " ", "h", "i", "s", "t", "o", "r", "y">>,
     <<"I", "n", "v", "o", "i", "c", "e", " ", "t", "o", "t", "a", "l">>}
Space == <<" ">>

RECURSIVE Join(_)
Join(ps) == IF ps = <<>> THEN <<>> ELSE Head(ps) \o Space \o Join(Tail(ps))

\* what an extractor reads out of the bytes; the empty text is also what a
\* failed extraction leaves
RawTexts == {Join(ps) : ps \in UNION {[1..n -> Phrases] : n \in 0..MaxPhrases}}

DetectorNames ==
    {<<"d", "o", "c", "1", ".", "p", "d", "f">>,
     <<"B", "a", "n", "k", "_", "S", "t", "a", "t", "e", "m", "e", "n", "t", "_", "2", "0", "2", "4", ".", "p", "d", "f">>,
     <<"A", "C", "C", "O", "U", "N", "T", ".", "D", "O", "C", "X">>,
     <<"b", "a", "n", "k", ".", "x", "l", "s", "x">>,
     <<"s", "t", "a", "t", "e", "m", "e", "n", "t">>,
     <<"n", "o", "t", "e", "s", ".", "c", "s", "v">>,
     <<"r", "e", "p", "o", "r", "t", ".", "t", "x", "t">>}

InitDetector ==
    /\ ledger = <<>> /\ disk = {} /\ folders = {} /\ uploads = <<>>
    /\ heronUsers = {} /\ extracted_company_name = None
    /\ timestamped_folder = NoFolder /\ email_pdf_uploaded = FALSE
    /\ email = NoEmail /\ scanIdx = 1 /\ bank_statement_files = <<>>
    /\ non_bank_files = <<>> /\ queue = <<>> /\ zipCur = NoZip
    /\ zipQueue = <<>> /\ emailsDone = 0 /\ filesDone = 0 /\ handled = <<>>
    /\ last = NoLast /\ folderChecks = 0 /\ owners = <<>> /\ resolved = None
    /\ ledger_kind = "list"
    /\ mailbox = NoMailbox /\ jobs = NoJobs
    /\ pc = "detect"
    /\ call = NoCall

\* self._bank_detector.detect(content, file_name)
Detect(raw, file_name) ==
    /\ pc = "detect"
    /\ call' = Call("detect", <<raw, file_name>>, "", FALSE,
                    detect_bytes(raw, file_name))
    /\ pc' = "detected"
    /\ UNCHANGED <<ledger, disk, folders, uploads, heronUsers,
                   extracted_company_name, timestamped_folder,
                   email_pdf_uploaded, email, scanIdx, bank_statement_files,
                   non_bank_files, queue, zipCur, zipQueue, emailsDone,
                   filesDone, handled, last, folderChecks, owners, resolved,
                   ledger_kind, mailbox, jobs>>

NextDetector == \E raw \in RawTexts, file_name \in DetectorNames : Detect(raw, file_name)

SpecDetector == InitDetector /\ [][NextDetector]_vars

-----------------------------------------------------------------------------
(* The parse-completion poll on its own: every short run of answers *)

MaxPolls == 3

PollStatuses == {"parsed", "processing", "failed", "queued", "absent"}
PollResponses ==
    {NoResponse, NotAList, FileList(<<>>)} \cup
    {FileList(fs) : fs \in UNION {[1..n -> PollStatuses] : n \in 1..2}}

Polling(max, answers, state) ==
    Call("wait_for_parsing", <<max, answers>>, "", FALSE, state)

InitPoll ==
    /\ ledger = <<>> /\ disk = {} /\ folders = {} /\ uploads = <<>>
    /\ heronUsers = {} /\ extracted_company_name = None
    /\ timestamped_folder = NoFolder /\ email_pdf_uploaded = FALSE
    /\ email = NoEmail /\ scanIdx = 1 /\ bank_statement_files = <<>>
    /\ non_bank_files = <<>> /\ queue = <<>> /\ zipCur = NoZip
    /\ zipQueue = <<>> /\ emailsDone = 0 /\ filesDone = 0 /\ handled = <<>>
    /\ last = NoLast /\ folderChecks = 0 /\ owners = <<>> /\ resolved = None
    /\ ledger_kind = "list"
    /\ mailbox = NoMailbox /\ jobs = NoJobs
    /\ pc = "poll"
    /\ \E max \in 1..MaxPolls : call = Polling(max, <<>>, "polling")

\* one pass of `for attempt in range(max_retries)`, and the fall out of the
\* loop after the last pass
CheckFileStatus(file_data) ==
    /\ pc = "poll"
    /\ LET max == call.args[1]
           answers == Append(call.args[2], file_data)
           verdict == poll_attempt(file_data)
       IN  /\ Len(call.args[2]) < max
           /\ IF verdict = "retry" /\ Len(answers) < max
              THEN /\ call' = Polling(max, answers, "polling")
                   /\ pc' = "poll"
              ELSE /\ call' = Polling(max, answers,
                                      IF verdict = "retry" THEN "timeout"
                                      ELSE verdict)
                   /\ pc' = "polled"
    /\ UNCHANGED <<ledger, disk, folders, uploads, heronUsers,
                   extracted_company_name, timestamped_folder,
                   email_pdf_uploaded, email, scanIdx, bank_statement_files,
                   non_bank_files, queue, zipCur, zipQueue, emailsDone,
                   filesDone, handled, last, folderChecks, owners, resolved,
                   ledger_kind, mailbox, jobs>>

NextPoll == \E file_data \in PollResponses : CheckFileStatus(file_data)

SpecPoll == InitPoll /\ [][NextPoll]_vars

-----------------------------------------------------------------------------
(* The archive expander on its own: archives of up to MaxEntries entries *)

MaxEntries == 3

EntryNames ==
    {<<"f", "i", "l", "e", ".", "p", "d", "f">>,
     <<"_", "_", "M", "A", "C", "O", "S", "X", "/", ".", "_", "f", "i", "l", "e", ".", "p", "d", "f">>,
     <<".", "D", "S", "_", "S", "t", "o", "r", "e">>,
     <<"d", "o", "c", "s", "/">>,
     <<"d", "o", "c", "s", "/", "r", "e", "p", "o", "r", "t", ".", "D", "O", "C", "X">>,
     <<"o", "l", "d", "_", "_", "M", "A", "C", "O", "S", "X", "/", "s", "c", "a", "n", ".", "p", "d", "f">>,
     <<".", "_", "n", "o", "t", "e", "s", ".", "c", "s", "v">>,
     <<"T", "h", "u", "m", "b", "s", ".", "d", "b">>,
     <<"r", "e", "a", "d", "m", "e", ".", "t", "x", "t">>,
     <<"d", "a", "t", "a", ".", "x", "l", "s", "x">>}
Archives == UNION {[1..n -> EntryNames] : n \in 0..MaxEntries}

InitZip ==
    /\ ledger = <<>> /\ disk = {} /\ folders = {} /\ uploads = <<>>
    /\ heronUsers = {} /\ extracted_company_name = None
    /\ timestamped_folder = NoFolder /\ email_pdf_uploaded = FALSE
    /\ email = NoEmail /\ scanIdx = 1 /\ bank_statement_files = <<>>
    /\ non_bank_files = <<>> /\ queue = <<>> /\ zipCur = NoZip
    /\ zipQueue = <<>> /\ emailsDone = 0 /\ filesDone = 0 /\ handled = <<>>
    /\ last = NoLast /\ folderChecks = 0 /\ owners = <<>> /\ resolved = None
    /\ ledger_kind = "list"
    /\ mailbox = NoMailbox /\ jobs = NoJobs
    /\ pc = "unzip"
    /\ call = NoCall

\* supported_files = get_supported_files(extract_zip(zip_path, extract_dir))
ExpandAndFilter(bad, file_list) ==
    /\ pc = "unzip"
    /\ call' = Call("expand_and_filter", <<bad, file_list>>, "", FALSE,
                    expand_and_filter(bad, file_list))
    /\ pc' = "unzipped"
    /\ UNCHANGED <<ledger, disk, folders, uploads, heronUsers,
                   extracted_company_name, timestamped_folder,
                   email_pdf_uploaded, email, scanIdx, bank_statement_files,
                   non_bank_files, queue, zipCur, zipQueue, emailsDone,
                   filesDone, handled, last, folderChecks, owners, resolved,
                   ledger_kind, mailbox, jobs>>

NextZip ==
    \E bad \in BOOLEAN, file_list \in Archives :
        (bad => file_list = <<>>) /\ ExpandAndFilter(bad, file_list)

SpecZip == InitZip /\ [][NextZip]_vars

-----------------------------------------------------------------------------
(* The mail source and the job that drains it: a mailbox of up to
   MaxMessages messages, the initial check of the main thread and the
   interval job of the scheduler *)

\* the unread messages, newest first ($orderby=receivedDateTime desc)
RECURSIVE UnreadFrom(_, _)
UnreadFrom(box, m) ==
    IF m = 0 THEN <<>>
    ELSE IF box[m].arrived /\ ~box[m].isRead
         THEN <<m>> \o UnreadFrom(box, m - 1)
         ELSE UnreadFrom(box, m - 1)
Unread(box) == UnreadFrom(box, MaxMessages)

JobPositions == {"fetch", "loop", "mark", "process"}
Active(w) == jobs[w].pc \in JobPositions

\* where a thread is after process_emails_job returns: the main thread goes
\* to its `while True: time.sleep(1)`, the scheduler's thread waits for the
\* next interval
Rest(w) == IF w = "main" THEN "sleep" ELSE "idle"

InitMail ==
    /\ ledger = <<>> /\ disk = {} /\ folders = {} /\ uploads = <<>>
    /\ heronUsers = {} /\ extracted_company_name = None
    /\ timestamped_folder = NoFolder /\ email_pdf_uploaded = FALSE
    /\ email = NoEmail /\ scanIdx = 1 /\ bank_statement_files = <<>>
    /\ non_bank_files = <<>> /\ queue = <<>> /\ zipCur = NoZip
    /\ zipQueue = <<>> /\ emailsDone = 0 /\ filesDone = 0 /\ handled = <<>>
    /\ last = NoLast /\ folderChecks = 0 /\ owners = <<>> /\ resolved = None
    /\ ledger_kind = "list" /\ call = NoCall
    /\ pc = "idle"
    /\ mailbox = NoMailbox
    /\ jobs = NoJobs

MailFrame ==
    UNCHANGED <<ledger, disk, folders, uploads, heronUsers,
                extracted_company_name, timestamped_folder,
                email_pdf_uploaded, pc, email, scanIdx, bank_statement_files,
                non_bank_files, queue, zipCur, zipQueue, emailsDone,
                filesDone, handled, last, folderChecks, owners, resolved,
                ledger_kind, call>>

\* a message arrives unread; messages arrive in the order of their numbers
Arrive(m, relevant) ==
    /\ ~mailbox[m].arrived
    /\ \A k \in Messages : k < m => mailbox[k].arrived
    /\ mailbox' = [mailbox EXCEPT ![m] = Message(TRUE, FALSE, relevant, "none")]
    /\ UNCHANGED jobs
    /\ MailFrame

\* the main thread calls process_emails_job() after scheduler.start()
InitialCheck ==
    /\ jobs["main"].pc = "start"
    /\ jobs' = [jobs EXCEPT !["main"] = Job("fetch", <<>>, 0)]
    /\ UNCHANGED mailbox
    /\ MailFrame

\* the interval elapses and the scheduler runs process_emails_job in its own
\* thread. The job keeps the scheduler's default of one running instance, so
\* a firing while the previous scheduled run is active is skipped; the first
\* firing is 30 seconds after start(), the initial check is called at once.
SchedulerTriggered ==
    /\ jobs["scheduler"].pc = "idle"
    /\ jobs["main"].pc # "start"
    /\ jobs' = [jobs EXCEPT !["scheduler"] = Job("fetch", <<>>, 0)]
    /\ UNCHANGED mailbox
    /\ MailFrame

\* fetch_emails up to its loop: the GET of the unread messages; a failure
\* raises OutlookConnectionError, which the job logs and ends on
FetchEmails(w, ok) ==
    /\ jobs[w].pc = "fetch"
    /\ jobs' = [jobs EXCEPT ![w] =
                    IF ok THEN Job("loop", Unread(mailbox), 0)
                    ELSE Job(Rest(w), <<>>, 0)]
    /\ UNCHANGED mailbox
    /\ MailFrame

\* one pass of `for mail in emails` up to download_attachments: a message
\* that is not relevant is skipped; for a relevant one the attachments are
\* requested, and an API error is caught and answered with []
DownloadAttachments(w, api_ok) ==
    /\ jobs[w].pc = "loop"
    /\ IF jobs[w].emails = <<>>
       THEN /\ jobs' = [jobs EXCEPT ![w] = Job(Rest(w), <<>>, 0)]
            /\ UNCHANGED mailbox
       ELSE LET m == Head(jobs[w].emails)
            IN  IF ~mailbox[m].relevant
                THEN /\ jobs' = [jobs EXCEPT ![w] =
                                    Job("loop", Tail(jobs[w].emails), 0)]
                     /\ UNCHANGED mailbox
                ELSE /\ jobs' = [jobs EXCEPT ![w] =
                                    Job("mark", Tail(jobs[w].emails), m)]
                     /\ mailbox' = [mailbox EXCEPT ![m].retrieved =
                                       IF api_ok THEN "ok" ELSE "failed"]
    /\ MailFrame

\* mark_as_read(message_id), called whatever download_attachments returned;
\* a failed PATCH is logged and the message stays unread. The email is then
\* yielded to the job.
MarkAsRead(w, patched) ==
    /\ jobs[w].pc = "mark"
    /\ mailbox' = [mailbox EXCEPT ![jobs[w].cur].isRead = @ \/ patched]
    /\ jobs' = [jobs EXCEPT ![w].pc = "process"]
    /\ MailFrame

\* email_processor.process_email(email) returns and the generator resumes
ProcessEmailCall(w) ==
    /\ jobs[w].pc = "process"
    /\ jobs' = [jobs EXCEPT ![w] = Job("loop", jobs[w].emails, 0)]
    /\ UNCHANGED mailbox
    /\ MailFrame

NextMail ==
    \/ \E m \in Messages, relevant \in BOOLEAN : Arrive(m, relevant)
    \/ InitialCheck
    \/ SchedulerTriggered
    \/ \E w \in Workers, ok \in BOOLEAN : FetchEmails(w, ok)
    \/ \E w \in Workers, api_ok \in BOOLEAN : DownloadAttachments(w, api_ok)
    \/ \E w \in Workers, patched \in BOOLEAN : MarkAsRead(w, patched)
    \/ \E w \in Workers : ProcessEmailCall(w)

SpecMail == InitMail /\ [][NextMail]_vars

-----------------------------------------------------------------------------
(* The store upload on its own: every run of max_retries upload_file calls *)

\* upload_file returns its dict, or raises from _ensure_folder_exists, from
\* reading the local file, or from the PUT
UploadOutcomes == {"ok", "folder_error", "read_error", "http_error"}

InitUpload ==
    /\ ledger = <<>> /\ disk = {} /\ folders = {} /\ uploads = <<>>
    /\ heronUsers = {} /\ extracted_company_name = None
    /\ timestamped_folder = NoFolder /\ email_pdf_uploaded = FALSE
    /\ email = NoEmail /\ scanIdx = 1 /\ bank_statement_files = <<>>
    /\ non_bank_files = <<>> /\ queue = <<>> /\ zipCur = NoZip
    /\ zipQueue = <<>> /\ emailsDone = 0 /\ filesDone = 0 /\ handled = <<>>
    /\ last = NoLast /\ folderChecks = 0 /\ owners = <<>> /\ resolved = None
    /\ ledger_kind = "list"
    /\ mailbox = NoMailbox /\ jobs = NoJobs
    /\ pc = "upload"
    /\ \E outs \in [1..max_retries -> UploadOutcomes] :
          call = Call("upload_with_retry", <<outs>>, "", FALSE, <<>>)

\* upload_result = self._upload_with_retry(local_path, folder, file_name)
UploadWithRetry ==
    /\ pc = "upload"
    /\ call' = [call EXCEPT !.result = upload_with_retry(call.args[1])]
    /\ pc' = "uploaded"
    /\ UNCHANGED <<ledger, disk, folders, uploads, heronUsers,
                   extracted_company_name, timestamped_folder,
                   email_pdf_uploaded, email, scanIdx, bank_statement_files,
                   non_bank_files, queue, zipCur, zipQueue, emailsDone,
                   filesDone, handled, last, folderChecks, owners, resolved,
                   ledger_kind, mailbox, jobs>>

NextUpload == UploadWithRetry

SpecUpload == InitUpload /\ [][NextUpload]_vars

-----------------------------------------------------------------------------
(* Upload-and-parse on its own: every answer of the remote parser *)

StuckStatuses == {"new", "processing", "failed"}
StatusLists ==
    {NoResponse, NotAList, FileList(<<>>)} \cup
    {FileList(fs) : fs \in UNION {[1..n -> StuckStatuses] : n \in 1..2}}

ParseInputs ==
    [up1 : BOOLEAN, wait1 : BOOLEAN, status : StatusLists,
     up2 : BOOLEAN, wait2 : BOOLEAN]

InitParse ==
    /\ ledger = <<>> /\ disk = {} /\ folders = {} /\ uploads = <<>>
    /\ heronUsers = {} /\ extracted_company_name = None
    /\ timestamped_folder = NoFolder /\ email_pdf_uploaded = FALSE
    /\ email = NoEmail /\ scanIdx = 1 /\ bank_statement_files = <<>>
    /\ non_bank_files = <<>> /\ queue = <<>> /\ zipCur = NoZip
    /\ zipQueue = <<>> /\ emailsDone = 0 /\ filesDone = 0 /\ handled = <<>>
    /\ last = NoLast /\ folderChecks = 0 /\ owners = <<>> /\ resolved = None
    /\ ledger_kind = "list"
    /\ mailbox = NoMailbox /\ jobs = NoJobs
    /\ pc = "parse"
    /\ \E in \in ParseInputs :
          call = Call("upload_and_parse_with_retry", <<in>>, "", FALSE, <<>>)

\* success, pdf_id = self.heron_service.upload_and_parse_with_retry(...)
UploadAndParse ==
    /\ pc = "parse"
    /\ LET r == upload_and_parse_with_retry(call.args[1])
       IN  call' = [call EXCEPT !.raised = r.raised, !.result = r]
    /\ pc' = "parsed"
    /\ UNCHANGED <<ledger, disk, folders, uploads, heronUsers,
                   extracted_company_name, timestamped_folder,
                   email_pdf_uploaded, email, scanIdx, bank_statement_files,
                   non_bank_files, queue, zipCur, zipQueue, emailsDone,
                   filesDone, handled, last, folderChecks, owners, resolved,
                   ledger_kind, mailbox, jobs>>

NextParse == UploadAndParse

SpecParse == InitParse /\ [][NextParse]_vars

-----------------------------------------------------------------------------
(* Two overlapping cycles: the main thread's initial process_emails_job and
   the scheduler's share one EmailProcessor and one attachment_log.json *)

Bolt == <<"B", "o", "l", "t">>

\* a document: its name, its hash, whether the detector takes it for a
\* statement, and the owner the extractor reads in it
Doc(name, hash, bank, owner) ==
    [name |-> name, hash |-> hash, bank |-> bank, owner |-> owner]

\* the attachments of the email each thread is handed, statements first
OverlapEmails(w) ==
    IF w = "main"
    THEN {<<Doc(FileName("stmt", ".pdf"), "a1", TRUE, Acme)>>,
          <<Doc(FileName("stmt", ".pdf"), "a1", TRUE, Acme),
            Doc(FileName("terms", ".docx"), "a2", FALSE, None)>>}
    ELSE {<<Doc(FileName("stmt", ".pdf"), "b1", TRUE, Bolt)>>,
          <<Doc(FileName("terms", ".docx"), "b2", FALSE, None)>>}

OverlapId(w) == MessageId(IF w = "main" THEN 1 ELSE 2)
OverlapOwner(id) == IF id = MessageId(1) THEN Acme ELSE Bolt

\* the locals of one thread inside process_email and _process_single_file
Thread(at, id, files) ==
    [pc |-> at, id |-> id, files |-> files,
     unique_file_name |-> FileName("", ""), company_name |-> None,
     timestamped_folder |-> NoFolder, outcome |-> "", read |-> <<>>]

InitOverlap ==
    /\ ledger = <<>> /\ disk = {} /\ folders = {} /\ uploads = <<>>
    /\ heronUsers = {} /\ extracted_company_name = None
    /\ timestamped_folder = NoFolder /\ email_pdf_uploaded = FALSE
    /\ email = NoEmail /\ scanIdx = 1 /\ bank_statement_files = <<>>
    /\ non_bank_files = <<>> /\ queue = <<>> /\ zipCur = NoZip
    /\ zipQueue = <<>> /\ emailsDone = 0 /\ filesDone = 0 /\ handled = <<>>
    /\ last = NoLast /\ folderChecks = 0 /\ owners = <<>> /\ resolved = None
    /\ ledger_kind = "list"
    /\ mailbox = NoMailbox
    /\ pc = "idle"
    /\ call = NoCall
    /\ jobs \in {[w \in Workers |->
                    Thread("start", OverlapId(w),
                           IF w = "main" THEN f1 ELSE f2)] :
                 f1 \in OverlapEmails("main"), f2 \in OverlapEmails("scheduler")}

OverlapFrame ==
    UNCHANGED <<disk, heronUsers, pc, email, scanIdx, bank_statement_files,
                non_bank_files, queue, zipCur, zipQueue, emailsDone, filesDone,
                last, folderChecks, owners, resolved, ledger_kind, call,
                mailbox>>

\* a thread is inside process_email with attachments still to finish
Processing(w) ==
    /\ jobs[w].pc # "start"
    /\ ~(jobs[w].pc = "next" /\ jobs[w].files = <<>>)

\* lines 491-494: the caches of the shared instance are reset
ResetCaches(w) ==
    /\ jobs[w].pc = "start"
    /\ extracted_company_name' = None
    /\ timestamped_folder' = NoFolder
    /\ email_pdf_uploaded' = FALSE
    /\ jobs' = [jobs EXCEPT ![w].pc = "next"]
    /\ UNCHANGED <<ledger, folders, uploads, handled>>
    /\ OverlapFrame

\* line 319: unique_file_name = get_unique_filename(original_file_name)
UniqueName(w) ==
    /\ jobs[w].pc = "next"
    /\ jobs[w].files # <<>>
    /\ LET f == Head(jobs[w].files)
       IN  jobs' = [jobs EXCEPT
                ![w].unique_file_name = get_unique_filename(f.name, ledger),
                ![w].pc = IF f.bank THEN "company" ELSE "nonbank"]
    /\ UNCHANGED <<ledger, folders, uploads, handled, extracted_company_name,
                   timestamped_folder, email_pdf_uploaded>>
    /\ OverlapFrame

\* lines 365-375: the cached name if there is one, else the extractor's
CompanyName(w) ==
    /\ jobs[w].pc = "company"
    /\ IF extracted_company_name # None
       THEN /\ jobs' = [jobs EXCEPT ![w].company_name = extracted_company_name,
                                    ![w].pc = "folder"]
            /\ UNCHANGED extracted_company_name
       ELSE /\ jobs' = [jobs EXCEPT ![w].pc = "resolving"]
            /\ UNCHANGED extracted_company_name
    /\ UNCHANGED <<ledger, folders, uploads, handled, timestamped_folder,
                   email_pdf_uploaded>>
    /\ OverlapFrame

\* lines 369 and 375: the extractor returns and the name is cached
ExtractCompanyName(w) ==
    /\ jobs[w].pc = "resolving"
    /\ LET company_name == Head(jobs[w].files).owner
       IN  /\ extracted_company_name' = company_name
           /\ jobs' = [jobs EXCEPT ![w].company_name = company_name,
                                   ![w].pc = "folder"]
    /\ UNCHANGED <<ledger, folders, uploads, handled, timestamped_folder,
                   email_pdf_uploaded>>
    /\ OverlapFrame

\* lines 378-382: the cached folder if there is one, else a derived one
CreateFolder(w) ==
    /\ jobs[w].pc = "folder"
    /\ IF timestamped_folder # NoFolder
       THEN /\ jobs' = [jobs EXCEPT ![w].timestamped_folder = timestamped_folder,
                                    ![w].pc = "upload"]
            /\ UNCHANGED timestamped_folder
       ELSE LET d == create_timestamped_folder(jobs[w].company_name, folders)
            IN  /\ timestamped_folder' = d.name
                /\ jobs' = [jobs EXCEPT ![w].timestamped_folder = d.name,
                                        ![w].pc = "upload"]
    /\ UNCHANGED <<ledger, folders, uploads, handled, extracted_company_name,
                   email_pdf_uploaded>>
    /\ OverlapFrame

\* an upload of one thread: where it went and under which company name
OverlapUpload(w, target, company_name) ==
    LET f == Head(jobs[w].files)
    IN  [target |-> target, file_name |-> jobs[w].unique_file_name,
         hash |-> f.hash, message_id |-> jobs[w].id, bank |-> f.bank,
         company |-> company_name]

\* lines 384-387: the statement is uploaded into the Dataroom of the folder
UploadStatement(w) ==
    /\ jobs[w].pc = "upload"
    /\ LET company_folder == Target(jobs[w].timestamped_folder, "Dataroom")
       IN  /\ uploads' = Append(uploads,
                    OverlapUpload(w, company_folder, jobs[w].company_name))
           /\ folders' = folders \cup {jobs[w].timestamped_folder}
    /\ jobs' = [jobs EXCEPT ![w].outcome = "Parsed", ![w].pc = "log"]
    /\ UNCHANGED <<ledger, handled, extracted_company_name, timestamped_folder,
                   email_pdf_uploaded>>
    /\ OverlapFrame

\* lines 434-465: a non-statement goes where the caches say at that moment
UploadNonBank(w) ==
    /\ jobs[w].pc = "nonbank"
    /\ IF timestamped_folder # NoFolder /\ extracted_company_name # None
       THEN /\ uploads' = Append(uploads,
                    OverlapUpload(w, Target(timestamped_folder, "Dataroom"),
                                  extracted_company_name))
            /\ folders' = folders \cup {timestamped_folder}
            /\ jobs' = [jobs EXCEPT ![w].outcome = "NonBankFile_Dataroom",
                                    ![w].pc = "log"]
       ELSE /\ uploads' = Append(uploads,
                    OverlapUpload(w, Target(FolderName(NON_BANK, 0), ""), None))
            /\ folders' = folders \cup {FolderName(NON_BANK, 0)}
            /\ jobs' = [jobs EXCEPT ![w].outcome = "NonBank_Folder",
                                    ![w].pc = "log"]
    /\ UNCHANGED <<ledger, handled, extracted_company_name, timestamped_folder,
                   email_pdf_uploaded>>
    /\ OverlapFrame

\* log_attachment, line 73: ledger = ensure_ledger()
LogRead(w) ==
    /\ jobs[w].pc = "log"
    /\ jobs' = [jobs EXCEPT ![w].read = ledger, ![w].pc = "open"]
    /\ UNCHANGED <<ledger, folders, uploads, handled, extracted_company_name,
                   timestamped_folder, email_pdf_uploaded>>
    /\ OverlapFrame

\* log_attachment, line 83: open(LEDGER_FILE, "w") empties the file; a
\* reader that finds it empty takes it for an empty ledger (lines 26-30)
LogOpen(w) ==
    /\ jobs[w].pc = "open"
    /\ ledger' = <<>>
    /\ jobs' = [jobs EXCEPT ![w].pc = "dump"]
    /\ UNCHANGED <<folders, uploads, handled, extracted_company_name,
                   timestamped_folder, email_pdf_uploaded>>
    /\ OverlapFrame

\* log_attachment, lines 82-84: the list read plus the entry is written and
\* the call returns; handled keeps the entries of the calls that returned
LogDump(w) ==
    /\ jobs[w].pc = "dump"
    /\ LET f == Head(jobs[w].files)
           entry == Entry(jobs[w].id, jobs[w].unique_file_name, f.hash,
                          jobs[w].outcome)
       IN  /\ ledger' = Append(jobs[w].read, entry)
           /\ handled' = Append(handled, entry)
    /\ jobs' = [jobs EXCEPT ![w].files = Tail(jobs[w].files),
                            ![w].read = <<>>, ![w].pc = "next"]
    /\ UNCHANGED <<folders, uploads, extracted_company_name,
                   timestamped_folder, email_pdf_uploaded>>
    /\ OverlapFrame

NextOverlap ==
    \E w \in Workers :
        \/ ResetCaches(w)
        \/ UniqueName(w)
        \/ CompanyName(w)
        \/ ExtractCompanyName(w)
        \/ CreateFolder(w)
        \/ UploadStatement(w)
        \/ UploadNonBank(w)
        \/ LogRead(w)
        \/ LogOpen(w)
        \/ LogDump(w)

SpecOverlap == InitOverlap /\ [][NextOverlap]_vars

-----------------------------------------------------------------------------
(* process_email loop by loop: every iteration of every loop is a step, and
   every collaborator call returns or raises as it likes *)

MaxLoopFiles == 2

\* the attachments of an email: a statement and another document
LoopFiles ==
    {File(FileName("stmt", ".pdf"), "s", TRUE, FALSE),
     File(FileName("notes", ".pdf"), "n", FALSE, FALSE)}
LoopEmails == UNION {[1..n -> LoopFiles] : n \in 0..MaxLoopFiles}

\* a loop of the code and where it stands: the counter or attempt number and,
\* for the parse, the upload round
Loop(op, counter, round) == Call(op, <<counter>>, "", FALSE, round)

InitLive ==
    /\ disk = {} /\ folders = {} /\ uploads = <<>>
    /\ heronUsers = {} /\ extracted_company_name = None
    /\ timestamped_folder = NoFolder /\ email_pdf_uploaded = FALSE
    /\ email = NoEmail /\ scanIdx = 1 /\ bank_statement_files = <<>>
    /\ non_bank_files = <<>> /\ queue = <<>> /\ zipCur = NoZip
    /\ zipQueue = <<>> /\ emailsDone = 0 /\ filesDone = 0 /\ handled = <<>>
    /\ last = NoLast /\ folderChecks = 0 /\ owners = <<>> /\ resolved = None
    /\ ledger_kind = "list"
    /\ mailbox = NoMailbox /\ jobs = NoJobs
    /\ pc = "idle"
    /\ call = NoCall
    /\ ledger \in {<<>>,
                   <<Entry("m0", FileName("stmt", ".pdf"), "s0", "Parsed")>>,
                   <<Entry("m0", FileName("stmt", ".pdf"), "s0", "Parsed"),
                     Entry("m0", FileName("stmt(1)", ".pdf"), "s1", "Parsed")>>}

LiveFrame ==
    UNCHANGED <<disk, folders, uploads, heronUsers, extracted_company_name,
                timestamped_folder, email_pdf_uploaded, scanIdx, zipCur,
                zipQueue, emailsDone, filesDone, last, folderChecks, owners,
                resolved, ledger_kind, mailbox, jobs>>

\* the attachment the handler is working on
Current == handled[Len(handled)]

\* process_email is entered (lines 477-589): no attachments, return; else the
\* pre-scan puts each attachment in one of the two lists
LoopProcessEmail ==
    /\ pc = "idle"
    /\ \E atts \in LoopEmails :
        /\ email' = [id |-> MessageId(1), attachments |-> atts]
        /\ bank_statement_files' = SelectSeq(atts, LAMBDA a : a.bank)
        /\ non_bank_files' = SelectSeq(atts, LAMBDA a : ~a.bank)
        /\ queue' = bank_statement_files' \o non_bank_files'
        /\ pc' = IF atts = <<>> THEN "done" ELSE "next"
    /\ UNCHANGED <<ledger, handled, call>>
    /\ LiveFrame

\* one iteration of the two for loops of phase 2 (lines 627-648): the next
\* attachment is handed to process_attachment
LoopProcessAttachment ==
    /\ pc = "next"
    /\ queue # <<>>
    /\ handled' = Append(handled, Head(queue))
    /\ queue' = Tail(queue)
    /\ pc' = "name"
    /\ call' = Loop("get_unique_filename", 0, 0)
    /\ UNCHANGED <<ledger, email, bank_statement_files, non_bank_files>>
    /\ LiveFrame

\* both loops are through: process_email returns
LoopReturn ==
    /\ pc = "next"
    /\ queue = <<>>
    /\ pc' = "done"
    /\ UNCHANGED <<ledger, email, bank_statement_files, non_bank_files, queue,
                   handled, call>>
    /\ LiveFrame

\* the candidate name of get_unique_filename at a counter (0: the original)
Candidate(name, counter) ==
    IF counter = 0 THEN name
    ELSE FileName(name.base \o "(" \o ToString(counter) \o ")", name.ext)

\* get_unique_filename (lines 48-68): one test of a candidate name
Loop_get_unique_filename ==
    /\ pc = "name"
    /\ LET existing_filenames == {ledger[i].file_name : i \in DOMAIN ledger}
           counter == call.args[1]
       IN  IF Candidate(Current.name, counter) \in existing_filenames
           THEN /\ call' = Loop("get_unique_filename", counter + 1, 0)
                /\ UNCHANGED pc
           ELSE /\ call' = Loop(IF Current.bank
                                THEN "extract_company_name_with_retry"
                                ELSE "upload_with_retry", 1, 0)
                /\ pc' = IF Current.bank THEN "resolve" ELSE "upload"
    /\ UNCHANGED <<ledger, email, bank_statement_files, non_bank_files, queue,
                   handled>>
    /\ LiveFrame

\* _extract_company_name_with_retry (lines 147-174): one pass
Loop_extract_company_name ==
    /\ pc = "resolve"
    /\ LET attempt == call.args[1]
       IN  \E answer \in {"owner", "rejected", "raises"} :
             IF answer = "owner"
             THEN /\ pc' = "folder"
                  /\ call' = Loop("create_timestamped_folder", 0, 0)
             ELSE IF attempt < MAX_COMPANY_EXTRACTION_RETRIES
             THEN /\ call' = Loop("extract_company_name_with_retry",
                                  attempt + 1, 0)
                  /\ UNCHANGED pc
             ELSE /\ pc' = "log"
                  /\ call' = Loop("log_attachment", 0, 0)
    /\ UNCHANGED <<ledger, email, bank_statement_files, non_bank_files, queue,
                   handled>>
    /\ LiveFrame

\* _create_timestamped_folder (lines 184-189): one folder_exists call
Loop_create_timestamped_folder ==
    /\ pc = "folder"
    /\ LET counter == call.args[1]
       IN  \E exists \in BOOLEAN :
             IF exists /\ counter + 1 <= FolderCounterLimit
             THEN /\ call' = Loop("create_timestamped_folder", counter + 1, 0)
                  /\ UNCHANGED pc
             ELSE /\ pc' = "upload"
                  /\ call' = Loop("upload_with_retry", 1, 0)
    /\ UNCHANGED <<ledger, email, bank_statement_files, non_bank_files, queue,
                   handled>>
    /\ LiveFrame

\* a retry that starts over at the first attempt when the last one failed
Loop_upload_with_retry_again ==
    /\ pc = "upload"
    /\ \E ok \in BOOLEAN :
         IF ok
         THEN /\ pc' = IF Current.bank THEN "poll" ELSE "log"
              /\ call' = IF Current.bank THEN Loop("wait_for_parsing", 0, 1)
                         ELSE Loop("log_attachment", 0, 0)
         ELSE /\ call' = Loop("upload_with_retry",
                              IF call.args[1] < max_retries
                              THEN call.args[1] + 1 ELSE 1, 0)
              /\ UNCHANGED pc
    /\ UNCHANGED <<ledger, email, bank_statement_files, non_bank_files, queue,
                   handled>>
    /\ LiveFrame

\* _upload_with_retry (lines 128-141): one attempt
Loop_upload_with_retry ==
    /\ pc = "upload"
    /\ LET attempt == call.args[1]
       IN  \E ok \in BOOLEAN :
             IF ok
             THEN /\ pc' = IF Current.bank THEN "poll" ELSE "log"
                  /\ call' = IF Current.bank THEN Loop("wait_for_parsing", 0, 1)
                             ELSE Loop("log_attachment", 0, 0)
             ELSE IF attempt < max_retries
             THEN /\ call' = Loop("upload_with_retry", attempt + 1, 0)
                  /\ UNCHANGED pc
             ELSE /\ pc' = "log"
                  /\ call' = Loop("log_attachment", 0, 0)
    /\ UNCHANGED <<ledger, email, bank_statement_files, non_bank_files, queue,
                   handled>>
    /\ LiveFrame

\* wait_for_parsing (heron_service.py 164-210), one status request, inside
\* upload_and_parse_with_retry (212-241): a wait that fails may be followed
\* by one more upload and wait
Loop_wait_for_parsing ==
    /\ pc = "poll"
    /\ LET attempt == call.args[1]
           round == call.result
       IN  \E answer \in {"success", "failed", "pending", "raises"} :
             IF answer = "success"
             THEN /\ pc' = "log"
                  /\ call' = Loop("log_attachment", 0, 0)
             ELSE IF answer \in {"pending", "raises"} /\ attempt + 1 < MaxPolls
             THEN /\ call' = Loop("wait_for_parsing", attempt + 1, round)
                  /\ UNCHANGED pc
             ELSE \E reupload \in (IF round = 1 THEN BOOLEAN ELSE {FALSE}) :
                    IF reupload
                    THEN /\ call' = Loop("wait_for_parsing", 0, 2)
                         /\ UNCHANGED pc
                    ELSE /\ pc' = "log"
                         /\ call' = Loop("log_attachment", 0, 0)
    /\ UNCHANGED <<ledger, email, bank_statement_files, non_bank_files, queue,
                   handled>>
    /\ LiveFrame

\* the handler records its outcome and returns to the loop of phase 2
LoopLogAttachment ==
    /\ pc = "log"
    /\ ledger' = log_attachment(ledger, email.id, Current.name, Current.hash,
                                "Recorded")
    /\ pc' = "next"
    /\ call' = NoCall
    /\ UNCHANGED <<email, bank_statement_files, non_bank_files, queue, handled>>
    /\ LiveFrame

\* the steps of a process_email call that was entered
LoopStep ==
    \/ LoopProcessAttachment
    \/ LoopReturn
    \/ Loop_get_unique_filename
    \/ Loop_extract_company_name
    \/ Loop_create_timestamped_folder
    \/ Loop_upload_with_retry
    \/ Loop_wait_for_parsing
    \/ LoopLogAttachment

NextLive ==
    \/ LoopProcessEmail
    \/ LoopStep

\* the worker's thread keeps running: a step that can be taken is taken
SpecLive == InitLive /\ [][NextLive]_vars /\ WF_vars(LoopStep)

-----------------------------------------------------------------------------
(* Properties *)

HandlerReturned == Len(handled') = Len(handled) + 1

HashWasComputed(r) ==
    r.exit \in {"company_extraction_failed", "upload_failed", "done"}

\* C1: a file whose SHA-256 is already in the ledger is recorded as Duplicate
\* and causes no store upload and no remote-parse call.
C1_DuplicateShortCircuited ==
    (last.known /\ HashWasComputed(last)) =>
        /\ last.outcomes = <<"Duplicate">>
        /\ ~last.upload_called
        /\ last.remote = <<>>

\* C2: when the resolver is called for a statement and returns the absence
\* signal, the handler appends exactly one CompanyExtractionFailed entry for
\* the file, derives no folder, uploads nothing, calls no remote service, keeps
\* the company name absent, and leaves the remaining files queued.
C2_ExtractionFailureStopsOnlyThisFile ==
    [][(HandlerReturned /\ last'.resolver_calls > 0 /\ last'.resolved = None) =>
        /\ Len(ledger') = Len(ledger) + 1
        /\ SubSeq(ledger', 1, Len(ledger)) = ledger
        /\ ledger'[Len(ledger')].outcome = "CompanyExtractionFailed"
        /\ ledger'[Len(ledger')].file_name = last'.name
        /\ ledger'[Len(ledger')].message_id = email.id
        /\ uploads' = uploads
        /\ folders' = folders
        /\ heronUsers' = heronUsers
        /\ timestamped_folder' = timestamped_folder
        /\ extracted_company_name' = None
        /\ ~last'.folder_derived
        /\ ~last'.upload_called
        /\ last'.remote = <<>>
        /\ pc = "process" => (pc' = "process" /\ queue' = Tail(queue))
        /\ pc = "zip" => (pc' = "zip" /\ zipQueue' = Tail(zipQueue)
                          /\ queue' = queue)]_vars

\* a statement whose company extraction failed, and a later file of the same
\* email that was handled after it
C2_Witness ==
    /\ \E i \in DOMAIN handled :
        /\ handled[i].exit = "company_extraction_failed"
        /\ i < Len(handled)
    /\ \E k \in DOMAIN ledger : ledger[k].outcome = "CompanyExtractionFailed"

\* C3: every run of the per-file handler appends exactly one ledger entry.
C3_OneEntryPerHandledFile ==
    [][HandlerReturned => Len(ledger') = Len(ledger) + 1]_vars

\* C4: once process_email has returned, no attachment of the email has a
\* local copy left: not the downloaded file, not a working copy, not the
\* expansion directory of an archive.
C4_NoLocalCopiesAfterReturn ==
    pc = "done" =>
        \A i \in DOMAIN email.attachments :
            LET a == email.attachments[i]
            IN  /\ DownloadPath(a) \notin disk
                /\ \A p \in disk :
                      p.dir \notin {base_download_dir, ExtractDir(a)}

NonStatementProcessed(h) == ~h.bank /\ h.exit \in {"done", "upload_failed"}

\* C5: within one email no statement is processed after a non-statement.
C5_StatementsBeforeNonStatements ==
    \A i, j \in DOMAIN handled :
        (i < j /\ NonStatementProcessed(handled[i])) => ~handled[j].bank

\* C6: status Parsed is recorded only after the enriched result set was
\* fetched from the remote service.
C6_ParsedOnlyAfterResultsFetched ==
    (last.status = "Parsed" \/ "Parsed" \in Range(last.outcomes)) =>
        "get_enriched_transactions" \in Range(last.remote)

OutcomeVocabulary ==
    {"Success", "Duplicate", "NotBankStatement", "UploadFailed",
     "CompanyExtractionFailed", "HeronError", "ParseTimeout",
     "ParseRetrievalFailed", "Parsed", "ZIPProcessed", "ZIPError", "EmptyZIP",
     "NoSupportedFiles", "Error"}

\* C7: every ledger entry has an outcome of the fixed vocabulary.
C7_OutcomesInVocabulary ==
    \A i \in DOMAIN ledger : ledger[i].outcome \in OutcomeVocabulary

\* C8: resolve returns the absence signal or a trimmed, non-blank owner that
\* is no sentinel in any letter case.
C8_ResolverNeverReturnsSentinel ==
    pc = "resolved" =>
        \/ resolved = None
        \/ /\ resolved = Strip(resolved)
           /\ resolved # <<>>
           /\ Upper(resolved) \notin Sentinels

AllCounterNamesExist ==
    \A n \in 0..FolderCounterLimit :
        FolderName(extracted_company_name, n) \in folders

\* C9: the derived folder is the first of D_C, D_C(1), ..., D_C(100) that the
\* store reports absent, whenever there is one.
C9_FirstAbsentFolderName ==
    pc = "derived" =>
        \A n \in 0..FolderCounterLimit :
            ( /\ FolderName(extracted_company_name, n) \notin folders
              /\ \A j \in 0..(n - 1) :
                    FolderName(extracted_company_name, j) \in folders )
            => timestamped_folder = FolderName(extracted_company_name, n)

\* the collision scenario: D_C exists, D_C(1) does not, D_C(1) is derived
C9_Witness ==
    /\ pc = "derived"
    /\ FolderName(extracted_company_name, 0) \in folders
    /\ FolderName(extracted_company_name, 1) \notin folders
    /\ timestamped_folder = FolderName(extracted_company_name, 1)
    /\ folderChecks = 2

\* C10: when the base name and all suffixes (1)..(100) exist, the derivation
\* stops after a bounded number of checks and returns a name that is not
\* counter-suffixed and that the store did not report as existing.
C10_FallbackIsNotCounterSuffixed ==
    (pc = "derived" /\ AllCounterNamesExist) =>
        /\ folderChecks <= FolderCounterLimit + 1
        /\ timestamped_folder.counter = 0
        /\ timestamped_folder \notin folders

Suffixed(name, k) ==
    FileName(name.base \o "(" \o ToString(k) \o ")", name.ext)

LedgerFileNames == {ledger[i].file_name : i \in DOMAIN ledger}

\* C11: on a well-formed ledger get_unique_filename returns the candidate
\* when no entry has that file name, and otherwise base(k)ext for the
\* smallest k >= 1 whose name no entry has; the result is never a file name
\* of the ledger.
C11_NextUniqueName ==
    (call.op = "get_unique_filename" /\ call.store \in {"absent", "list"}) =>
        LET c == call.args[1]
        IN  /\ ~call.raised
            /\ c \notin LedgerFileNames => call.result = c
            /\ c \in LedgerFileNames =>
                  \E k \in 1..(MaxLedger + 1) :
                     /\ call.result = Suffixed(c, k)
                     /\ \A j \in 1..(k - 1) : Suffixed(c, j) \in LedgerFileNames
            /\ call.result \notin LedgerFileNames

\* stmt.pdf and stmt(1).pdf are taken, the candidate stmt.pdf becomes stmt(2).pdf
C11_Witness ==
    /\ call.op = "get_unique_filename"
    /\ call.args[1] = FileName("stmt", ".pdf")
    /\ {FileName("stmt", ".pdf"), FileName("stmt(1)", ".pdf")} \subseteq LedgerFileNames
    /\ call.result = FileName("stmt(2)", ".pdf")

\* C12: a record call that returns appends its entry at the end of the
\* stored entries and leaves the earlier ones as they were; no other ledger
\* operation changes the stored entries.
C12_LedgerAppendOnly ==
    [][IF call'.op = "log_attachment" /\ ~call'.raised
       THEN ledger' = Append(ledger, call'.args[1])
       ELSE ledger' = ledger]_vars

\* a record onto a ledger that already held two entries
C12_Witness ==
    /\ call.op = "log_attachment"
    /\ call.store = "list"
    /\ ~call.raised
    /\ Len(ledger) = 3
    /\ ledger[3] = call.args[1]
    /\ ledger[1] # ledger[3]

\* C13: on a malformed ledger file no ledger operation fails: is_duplicate
\* answers False, get_unique_filename returns its candidate, and a record
\* leaves a well-formed file holding the new entry.
C13_MalformedLedgerIsEmpty ==
    (call.op # "" /\ call.store \in Malformed) =>
        /\ ~call.raised
        /\ call.op = "is_duplicate" => call.result = FALSE
        /\ call.op = "get_unique_filename" => call.result = call.args[1]
        /\ call.op = "log_attachment" =>
              /\ ledger_kind = "list"
              /\ ledger = <<call.args[1]>>

\* the lowercased text the classifier counts keywords in, for a call's inputs
ExtractedText(raw, file_name) ==
    IF \E e \in DetectorExtensions : EndsWith(Lower(file_name), e)
    THEN Lower(raw) ELSE <<>>

\* the entries of the keyword vocabulary that occur in a text
VocabularyIn(text) ==
    {k \in Range(required_keywords) : Contains(text, k)}

\* C14: detect answers True exactly when at least three entries of the
\* keyword vocabulary occur in the lowercased extracted text, or the file name
\* ends in .pdf/.doc/.docx/.csv and contains bank, statement or account; a
\* content match decides first, whatever the file name.
C14_DetectIffContentOrFilename ==
    call.op = "detect" =>
        LET raw == call.args[1]
            name == call.args[2]
            content == Cardinality(VocabularyIn(ExtractedText(raw, name))) >= 3
            filename ==
                /\ \E e \in DetectorExtensions : EndsWith(Lower(name), e)
                /\ \E t \in NameTokens : Contains(Lower(name), t)
        IN  /\ call.result.is_bank_statement = (content \/ filename)
            /\ content => call.result.by = "content"

\* a statement of the current email got as far as its destination folder
FolderEstablished ==
    \E i \in DOMAIN handled :
        handled[i].bank /\ handled[i].exit \in {"upload_failed", "done"}

GenericFolder == [folder |-> FolderName(NON_BANK, 0), sub |-> ""]

\* C15: a non-statement is uploaded to the Dataroom of the company folder
\* exactly when a statement of the same email established that folder before
\* it, otherwise to the generic non-bank folder, and by one upload only.
C15_NonStatementRouting ==
    [][(HandlerReturned /\ ~last'.bank /\ uploads' # uploads) =>
        /\ Len(uploads') = Len(uploads) + 1
        /\ SubSeq(uploads', 1, Len(uploads)) = uploads
        /\ uploads'[Len(uploads')].file_name = last'.name
        /\ uploads'[Len(uploads')].target =
              IF FolderEstablished
              THEN [folder |-> timestamped_folder, sub |-> "Dataroom"]
              ELSE GenericFolder
        /\ FolderEstablished => timestamped_folder # NoFolder]_vars

\* both routes taken in one run: a non-statement in the generic folder and a
\* non-statement in a company Dataroom
C15_Witness ==
    /\ ~last.bank
    /\ last.uploaded_to.sub = "Dataroom"
    /\ \E i \in DOMAIN uploads : uploads[i].target = GenericFolder

C17_UploadFailureRecorded ==
    [][(HandlerReturned /\ last'.exit = "upload_failed") =>
        /\ Len(ledger') = Len(ledger) + 1
        /\ SubSeq(ledger', 1, Len(ledger)) = ledger
        /\ ledger'[Len(ledger')].outcome = "UploadFailed"
        /\ ledger'[Len(ledger')].file_name = last'.name
        /\ last'.remote = <<>>
        /\ uploads' = uploads
        /\ heronUsers' = heronUsers
        /\ email_pdf_uploaded' = email_pdf_uploaded]_vars

\* the statuses a run of answers showed, in the order they were read
RECURSIVE StatusesRead(_)
StatusesRead(answers) ==
    IF answers = <<>> THEN <<>>
    ELSE (IF Head(answers).kind = "list" THEN Head(answers).files ELSE <<>>)
         \o StatusesRead(Tail(answers))

Decided(status) == status \in SUCCESS_STATES \cup FAILED_STATES

\* C18: the poll asks for the status at most max_retries times; it returns
\* success at the first status read from the success bucket, failure at the
\* first status read from the failure bucket, and a timeout failure when all
\* attempts went by with nothing but pending, missing or unknown statuses.
C18_PollIsBoundedAndFirstDecides ==
    call.op = "wait_for_parsing" =>
        LET max == call.args[1]
            answers == call.args[2]
            read == StatusesRead(answers)
            earlier == StatusesRead(SubSeq(answers, 1, Len(answers) - 1))
        IN  /\ Len(answers) <= max
            /\ \A i \in DOMAIN earlier : ~Decided(earlier[i])
            /\ IF \E i \in DOMAIN read : Decided(read[i])
               THEN LET first == CHOOSE i \in DOMAIN read :
                                    /\ Decided(read[i])
                                    /\ \A j \in 1..(i - 1) : ~Decided(read[j])
                    IN  /\ pc = "polled"
                        /\ call.result = IF read[first] \in SUCCESS_STATES
                                         THEN "success" ELSE "failed"
               ELSE IF Len(answers) = max
                    THEN pc = "polled" /\ call.result = "timeout"
                    ELSE pc = "poll" /\ call.result = "polling"

\* pending at the first two attempts; the third answer lists a failed file
\* ahead of a parsed one, and the poll fails
C18_Witness ==
    /\ call.op = "wait_for_parsing"
    /\ Len(call.args[2]) = 3
    /\ call.args[2][3] = FileList(<<"failed", "parsed">>)
    /\ call.result = "failed"

StatementHashes ==
    {f.hash : f \in {g \in Catalogue : g.kind = "file" /\ g.bank}} \cup
    UNION {{z.members[i].hash : i \in {j \in DOMAIN z.members : z.members[j].bank}} :
              z \in {g \in Catalogue : g.kind = "zip"}}

SummaryUploads(id) ==
    {i \in DOMAIN uploads : /\ uploads[i].message_id = id
                            /\ uploads[i].file_name = FileName("email_summary", ".pdf")}
StatementUploads(id) ==
    {i \in DOMAIN uploads : /\ uploads[i].message_id = id
                            /\ uploads[i].hash \in StatementHashes
                            /\ uploads[i].target.sub = "Dataroom"}

\* C19: per email the summary is in the store at most once, under
\* summary_mail of the folder that holds the email's statements, and only
\* after a statement of that email was uploaded.
C19_SummaryOncePerEmail ==
    \A n \in 1..MaxEmails :
        LET id == MessageId(n)
        IN  /\ Cardinality(SummaryUploads(id)) <= 1
            /\ \A i \in SummaryUploads(id) :
                  /\ uploads[i].target.sub = "summary_mail"
                  /\ \E j \in StatementUploads(id) : j < i
                  /\ \A j \in StatementUploads(id) :
                        uploads[j].target.folder = uploads[i].target.folder

\* two statements of one email in the store, and one summary beside them
C19_Witness ==
    \E n \in 1..MaxEmails :
        /\ Cardinality(StatementUploads(MessageId(n))) = 2
        /\ Cardinality(SummaryUploads(MessageId(n))) = 1

\* an entry inside a directory named __MACOSX
UnderMacosxContainer(name) ==
    \/ StartsWith(name, MACOSX \o <<Slash>>)
    \/ Contains(name, <<Slash>> \o MACOSX \o <<Slash>>)

WantedEntry(name) ==
    /\ ~EndsWith(name, <<Slash>>)
    /\ ~UnderMacosxContainer(name)
    /\ ~StartsWith(Basename(name), DotUnderscore)
    /\ Basename(name) \notin SystemFileNames
    /\ Lower(SplitExt(name)) \in SupportedExtensionNames

\* C20: expanding a well-formed archive and filtering returns exactly its
\* entries that are no directory entries, not inside a __MACOSX container,
\* not dot-underscore files, not .DS_Store / Thumbs.db / desktop.ini, and
\* that carry a supported extension.
C20_ExpandAndFilterExact ==
    (call.op = "expand_and_filter" /\ ~call.args[1]) =>
        call.result = SelectSeq(call.args[2], WantedEntry)

\* the next attachment to process is a malformed archive that is on disk
MalformedArchiveNext ==
    /\ pc = "process"
    /\ queue # <<>>
    /\ Head(queue).kind = "zip"
    /\ Head(queue).bad
    /\ DownloadPath(Head(queue)) \in disk

\* C21: a malformed archive expands to the empty list, and handling it moves
\* on to the next attachment leaving ledger, store, remote users, caches and
\* every local file as they were (only its own expansion directory is new),
\* so the other attachments are processed as they would be without it.
C21_MalformedArchiveIsSkipped ==
    [][MalformedArchiveNext =>
        /\ extract_zip(Head(queue)) = <<>>
        /\ pc' = "process"
        /\ queue' = Tail(queue)
        /\ disk \subseteq disk'
        /\ \A p \in disk' \ disk : p.dir = ExtractDir(Head(queue))
        /\ UNCHANGED <<ledger, folders, uploads, heronUsers,
                       extracted_company_name, timestamped_folder,
                       email_pdf_uploaded, handled, last, zipCur, zipQueue>>]_vars

\* bad.zip came first, notes.pdf after it was handled to the end
C21_Witness ==
    /\ pc = "done"
    /\ email.attachments = <<Bad1, Doc1>>
    /\ Len(handled) = 1
    /\ handled[1].name = Doc1.name
    /\ handled[1].exit = "done"

\* C22: a message is marked read only after its attachments were retrieved:
\* no message whose latest retrieval failed carries the read flag (such a
\* message stays unread, so that a later fetch lists it again).
C22_ReadOnlyAfterRetrieval ==
    \A m \in Messages :
        mailbox[m].retrieved = "failed" => ~mailbox[m].isRead

\* C23: at most one invocation of process_emails_job is active at any time.
C23_OneCycleAtATime ==
    Cardinality({w \in Workers : Active(w)}) <= 1

\* the positions of the extractor calls in a trace
CallsIn(trace) == {i \in DOMAIN trace : trace[i] = Called}

\* every sleep of a trace stands between two calls
SleepsOnlyBetweenCalls(trace) ==
    \A i \in DOMAIN trace :
        trace[i].ev = "sleep" =>
            /\ i > 1 /\ i < Len(trace)
            /\ trace[i - 1] = Called
            /\ trace[i + 1] = Called

\* C24: one resolve calls the extractor at most MAX_COMPANY_EXTRACTION_RETRIES
\* (2) times and as often as it takes to reach the first accepted owner,
\* whose trimmed text it returns; it sleeps only between two calls, never
\* after the last attempt or after a success; an extractor that raises uses
\* up its attempt and nothing is raised to the caller.
C24_ResolveAttemptsAndPauses ==
    (pc = "resolved" /\ call.op = "extract_company_name_with_retry") =>
        LET r == call.result
            accepted == {i \in DOMAIN owners : OwnerAccepted(owners[i])}
        IN  /\ ~call.raised
            /\ r.calls = Cardinality(CallsIn(r.trace))
            /\ r.calls <= MAX_COMPANY_EXTRACTION_RETRIES
            /\ r.calls <= 2
            /\ IF accepted = {}
               THEN r.calls = MAX_COMPANY_EXTRACTION_RETRIES /\ r.name = None
               ELSE /\ r.calls \in accepted
                    /\ \A i \in accepted : r.calls <= i
                    /\ r.name = Strip(owners[r.calls].owner)
            /\ r.trace[Len(r.trace)] = Called
            /\ SleepsOnlyBetweenCalls(r.trace)
            /\ \A i \in DOMAIN r.trace :
                   r.trace[i].ev = "sleep" => r.trace[i].secs = 2

\* the extractor raised at the first attempt and answered at the second
C24_Witness ==
    /\ pc = "resolved"
    /\ owners[1].shape = "raises"
    /\ OwnerAccepted(owners[2])
    /\ call.result.trace = <<Called, Slept(2), Called>>
    /\ resolved = Acme

\* the attempts of an upload run that succeed
Succeeding(outs) == {i \in DOMAIN outs : outs[i] = "ok"}

\* the trace of a run that made n calls: call, sleep 2, call, sleep 4, ...
\* ending with the n-th call
Backoff(n) ==
    [i \in 1..(2 * n - 1) |->
        IF i % 2 = 1 THEN Called ELSE Slept(2 ^ (i \div 2))]

\* C25: one upload-with-retry calls upload_file at most max_retries (3)
\* times; it returns success at the first attempt that succeeds and makes no
\* further call; it sleeps 2 seconds after the first failure and 4 after the
\* second, and not after the last; it returns failure only after three
\* failed attempts.
C25_UploadAttemptsAndBackoff ==
    (pc = "uploaded" /\ call.op = "upload_with_retry") =>
        LET outs == call.args[1]
            r == call.result
        IN  /\ r.attempts <= max_retries
            /\ r.attempts <= 3
            /\ r.trace = Backoff(r.attempts)
            /\ \A i \in DOMAIN r.trace :
                   /\ (i = 2 => r.trace[i] = Slept(2))
                   /\ (i = 4 => r.trace[i] = Slept(4))
            /\ r.trace[Len(r.trace)] = Called
            /\ IF Succeeding(outs) = {}
               THEN ~r.ok /\ r.attempts = 3
               ELSE /\ r.ok
                    /\ r.attempts \in Succeeding(outs)
                    /\ \A i \in Succeeding(outs) : r.attempts <= i

\* two failures, then the third attempt succeeds
C25_Witness ==
    /\ pc = "uploaded"
    /\ call.op = "upload_with_retry"
    /\ call.args[1] = <<"http_error", "read_error", "ok">>
    /\ call.result.ok
    /\ call.result.trace = <<Called, Slept(2), Called, Slept(4), Called>>

\* this step is a run of the file handler that reached CASE 1
StatementHandled ==
    /\ Len(handled') = Len(handled) + 1
    /\ last'.bank

\* C26: a statement handled while the email's company name is cached calls
\* neither the extractor nor folder_exists, leaves name and folder as they
\* are and uploads to {cached folder}/Dataroom; a statement handled while
\* the name is absent calls the extractor; every statement that is uploaded
\* goes to the Dataroom of the one folder the email keeps.
C26_CachedNameAndFolderReused ==
    [][StatementHandled =>
        /\ IF extracted_company_name # None
           THEN /\ timestamped_folder # NoFolder
                /\ last'.resolver_calls = 0
                /\ ~last'.folder_derived
                /\ folderChecks' = folderChecks
                /\ extracted_company_name' = extracted_company_name
                /\ timestamped_folder' = timestamped_folder
                /\ last'.company = extracted_company_name
           ELSE last'.resolver_calls >= 1
        /\ last'.uploaded_to # NoTarget =>
              last'.uploaded_to = Target(timestamped_folder', "Dataroom")
        /\ timestamped_folder # NoFolder =>
              timestamped_folder' = timestamped_folder]_vars

\* the second statement of an email was uploaded from the caches
C26_Witness ==
    /\ Len(handled) = 2
    /\ handled[1].bank /\ handled[2].bank
    /\ last.bank
    /\ last.resolver_calls = 0
    /\ ~last.folder_derived
    /\ last.uploaded_to = Target(timestamped_folder, "Dataroom")
    /\ handled[1].exit = "done"
    /\ handled[2].exit = "done"

\* this step is the first run of the file handler for the current email
FirstFileHandled ==
    /\ handled = <<>>
    /\ Len(handled') = 1

\* a statement of the current email got as far as a resolved company name
ResolvedInThisEmail ==
    \E i \in DOMAIN handled :
        /\ handled[i].bank
        /\ handled[i].exit \in {"done", "upload_failed"}

\* C27: when the first attachment of an email is handled the cached company
\* name and folder are absent and the summary flag is false; and a file is
\* filed in a company folder only under a name resolved while handling this
\* email (by this run of the handler or by an earlier statement of it).
C27_FreshContextPerEmail ==
    [][/\ FirstFileHandled =>
            /\ extracted_company_name = None
            /\ timestamped_folder = NoFolder
            /\ ~email_pdf_uploaded
       /\ (Len(handled') = Len(handled) + 1 /\ last'.uploaded_to.sub = "Dataroom") =>
            \/ last'.resolver_calls >= 1 /\ last'.resolved = last'.company
            \/ ResolvedInThisEmail]_vars

\* the first email resolved a name and filed a statement; the statement of
\* the second email was resolved again before it was filed
C27_Witness ==
    /\ email.id = MessageId(2)
    /\ \E i \in DOMAIN ledger :
          ledger[i].message_id = MessageId(1) /\ ledger[i].outcome = "Parsed"
    /\ Len(handled) = 1
    /\ last.bank
    /\ last.resolver_calls >= 1
    /\ last.uploaded_to.sub = "Dataroom"

\* this step is a run of the file handler on a file it did not classify as a
\* statement
NonStatementHandled ==
    /\ Len(handled') = Len(handled) + 1
    /\ ~last'.bank

\* C28: handling a non-statement calls neither the extractor nor
\* folder_exists nor the remote parsing service, and leaves the cached
\* company name and folder as they were.
C28_NonStatementLeavesCompanyAlone ==
    [][NonStatementHandled =>
        /\ last'.resolver_calls = 0
        /\ last'.resolved = None
        /\ ~last'.folder_derived
        /\ folderChecks' = folderChecks
        /\ last'.remote = <<>>
        /\ heronUsers' = heronUsers
        /\ extracted_company_name' = extracted_company_name
        /\ timestamped_folder' = timestamped_folder]_vars

\* a non-statement was filed while a company name was cached, and another
\* while none was
C28_Witness ==
    /\ ~last.bank
    /\ last.exit = "done"
    /\ last.upload_called
    /\ last.outcomes = <<"NonBankFile_Dataroom">>
    /\ extracted_company_name = Acme
    /\ \E i \in DOMAIN ledger : ledger[i].outcome = "NonBank_Folder"

\* the requests of a handler run that go to the remote parsing service
ParseRequests ==
    {"upload_pdf", "parse_all_pdfs", "wait_for_parsing", "check_file_status"}

\* "ene_ACME", the id of the company name "Acme"
AcmeUser == <<"e", "n", "e", "_", "A", "C", "M", "E">>

Count(ops, op) == Cardinality({i \in DOMAIN ops : ops[i] = op})

\* C30: one upload-and-parse makes at most 2 remote uploads and 2 polls; it
\* makes the second upload only when the first upload succeeded, the first
\* poll failed and the status list read then is non-empty with every file at
\* "new"; a second poll follows a second upload only; and when the first
\* upload fails it triggers no parse, makes no poll and reports failure.
C30_AtMostOneReuploadCycle ==
    (pc = "parsed" /\ call.op = "upload_and_parse_with_retry") =>
        LET in == call.args[1]
            r == call.result
            remote_uploads == Count(r.ops, "upload_pdf")
            polls == Count(r.ops, "wait_for_parsing")
        IN  /\ remote_uploads <= 2
            /\ polls <= 2
            /\ polls <= remote_uploads
            /\ Count(r.ops, "parse_all_pdfs") = polls
            /\ remote_uploads = 2 =>
                   /\ in.up1 /\ ~in.wait1
                   /\ in.status.kind = "list"
                   /\ Len(in.status.files) >= 1
                   /\ \A i \in DOMAIN in.status.files :
                          in.status.files[i] = "new"
                   /\ r.ops[3] = "wait_for_parsing"
                   /\ r.ops[4] = "check_file_status"
                   /\ r.ops[5] = "upload_pdf"
            /\ ~in.up1 =>
                   /\ r.ops = <<"upload_pdf">>
                   /\ ~r.success
                   /\ r.file_id = ""

\* the first poll failed with both files at "new"; the file was uploaded and
\* polled a second time, with success
C30_Witness ==
    /\ pc = "parsed"
    /\ call.op = "upload_and_parse_with_retry"
    /\ call.args[1].status = FileList(<<"new", "new">>)
    /\ Count(call.result.ops, "upload_pdf") = 2
    /\ Count(call.result.ops, "wait_for_parsing") = 2
    /\ call.result.success

\* C31: every attachment that was uploaded to the store gets a metadata
\* update for the uploaded item (last.status is the processing status handed
\* to update_sharepoint_metadata_graph, empty when it was not called).
C31_MetadataForEveryUpload ==
    last.uploaded_to # NoTarget => last.status # ""

\* C32: a step of the pre-scan makes no store upload, no ledger write, no
\* resolver call and no remote call, and removes no attachment file; one
\* iteration puts its attachment at the end of exactly one of the two
\* buckets, the non-statement bucket when the scan raised; at the end every
\* attachment is in a bucket.
C32_PreScanHasNoOutwardEffect ==
    [][pc = "prescan" =>
        /\ UNCHANGED <<ledger, uploads, folders, heronUsers,
                       extracted_company_name, timestamped_folder,
                       email_pdf_uploaded, handled, last, owners, resolved>>
        /\ \A i \in DOMAIN email.attachments :
               DownloadPath(email.attachments[i]) \in disk =>
                   DownloadPath(email.attachments[i]) \in disk'
        /\ scanIdx' = scanIdx + 1 =>
               LET a == email.attachments[scanIdx]
               IN  /\ \/ /\ bank_statement_files' = Append(bank_statement_files, a)
                          /\ non_bank_files' = non_bank_files
                       \/ /\ non_bank_files' = Append(non_bank_files, a)
                          /\ bank_statement_files' = bank_statement_files
                   /\ call'.raised => non_bank_files' = Append(non_bank_files, a)
        /\ pc' = "process" =>
               /\ Len(bank_statement_files) + Len(non_bank_files)
                      = Len(email.attachments)
               /\ Len(queue') = Len(email.attachments)]_vars

\* the scan of a statement raised and put it with the non-statements; the
\* other attachment is in the statement bucket
C32_Witness ==
    /\ pc = "prescan"
    /\ scanIdx = 3
    /\ call.op = "prescan" /\ call.raised
    /\ detect(call.args[1])
    /\ non_bank_files = <<call.args[1]>>
    /\ Len(bank_statement_files) = 1
    /\ ledger = <<>> /\ uploads = <<>>

\* the extractor returned a record (a JSON object, or an array that starts
\* with one) whose owner is non-blank and, trimmed, no sentinel
RecordWithAcceptableOwner(r) ==
    /\ r.shape \in {"dict", "list"}
    /\ r.has_owner
    /\ Strip(r.owner) # <<>>
    /\ Upper(Strip(r.owner)) \notin Sentinels

\* C33: when the extractor returns a record with an acceptable owner at the
\* first attempt, or at the second after a first attempt that gave nothing,
\* resolve returns that owner, trimmed.
C33_ResolvableOwnerIsReturned ==
    pc = "resolved" =>
        /\ RecordWithAcceptableOwner(owners[1]) =>
               resolved = Strip(owners[1].owner)
        /\ (~OwnerAccepted(owners[1]) /\ ~RecordWithAcceptableOwner(owners[1])
               /\ RecordWithAcceptableOwner(owners[2])) =>
               resolved = Strip(owners[2].owner)

\* the status list that ended a poll, and in it the file of this call: the
\* user's files are listed in the order of their upload, the newest last
DecidingAnswer == call.args[2][Len(call.args[2])]
NewestFile(file_data) == file_data.files[Len(file_data.files)]

\* C34: a poll ends with success only if the file uploaded for this statement
\* is in a success state, and with a failed status only if that file is in a
\* failure state: an older file of the same user does not decide.
C34_OnlyTheNewFileDecides ==
    (pc = "polled" /\ call.op = "wait_for_parsing") =>
        /\ call.result = "success" =>
               NewestFile(DecidingAnswer) \in SUCCESS_STATES
        /\ call.result = "failed" =>
               NewestFile(DecidingAnswer) \in FAILED_STATES

\* the folders into which the email with this id uploaded a statement
StatementFolders(id) ==
    {uploads[i].target.folder : i \in StatementUploads(id)}

\* C35: once an email has uploaded a statement into a folder, no later email
\* uploads any file into that folder.
C35_LaterEmailsUseAnotherFolder ==
    \A i, j \in DOMAIN uploads :
        (/\ i < j
         /\ uploads[i].message_id # uploads[j].message_id
         /\ i \in StatementUploads(uploads[i].message_id))
        => uploads[j].target.folder # uploads[i].target.folder

\* the uploads of attachments (everything but the email summaries)
AttachmentUploads ==
    {i \in DOMAIN uploads :
        uploads[i].file_name # FileName("email_summary", ".pdf")}

\* C36: no two ledger entries carry the same file name, the entries written
\* for archives included, and no two uploaded attachments are stored under
\* the same file name.
C36_NamesNeverCollide ==
    /\ \A i, j \in DOMAIN ledger :
            i # j => ledger[i].file_name # ledger[j].file_name
    /\ \A i, j \in AttachmentUploads :
            i # j => uploads[i].file_name # uploads[j].file_name

\* C37: when two cycles overlap, the entry of every record call that has
\* returned is in the ledger whenever no writer is in the middle of rewriting
\* the file, and no two files were given the same unique file name.
C37_OverlappingWritersLoseNothing ==
    /\ (\A w \in Workers : jobs[w].pc # "dump") =>
            \A i \in DOMAIN handled :
                \E k \in DOMAIN ledger : ledger[k] = handled[i]
    /\ \A i, j \in DOMAIN handled :
            i # j => handled[i].file_name # handled[j].file_name

\* C38: when two cycles overlap on the shared instance, a statement is filed
\* under the company name and folder resolved from a document of its own
\* email, and no email's reset clears a cached name or folder while the other
\* email's attachments are still being processed.
C38_OverlappingEmailsKeepTheirContext ==
    /\ [](\A i \in DOMAIN uploads :
            ("bank" \in DOMAIN uploads[i] /\ uploads[i].bank) =>
                /\ uploads[i].company = OverlapOwner(uploads[i].message_id)
                /\ uploads[i].target.folder.base =
                        OverlapOwner(uploads[i].message_id))
    /\ [][\A w \in Workers :
            (/\ jobs[w].pc = "start" /\ jobs'[w].pc = "next"
             /\ (extracted_company_name # None \/ timestamped_folder # NoFolder))
            => \A v \in Workers \ {w} : ~Processing(v)]_vars

\* a text that consists of one phrase only
SinglePhrase(raw) == \E p \in Phrases : raw = Join(<<p>>)

\* C39: the content strategy answers True only for a text in which at least
\* three distinct keyword phrases occur; a text of a single phrase in a file
\* whose name carries no bank, statement or account token is classified as
\* not a bank statement.
C39_ThreeDistinctPhrasesNeeded ==
    call.op = "detect" =>
        LET raw == call.args[1]
            name == call.args[2]
        IN  /\ call.result.by = "content" =>
                Cardinality(VocabularyIn(ExtractedText(raw, name))) >=
                    min_keyword_threshold
            /\ (SinglePhrase(raw) /\ ~check_filename(name)) =>
                ~call.result.is_bank_statement

\* process_email is running
Running == pc \notin {"idle", "done"}

\* the bound of the loop a call is in
LoopBound ==
    CASE call.op = "get_unique_filename" -> Len(ledger)
      [] call.op = "extract_company_name_with_retry" -> MAX_COMPANY_EXTRACTION_RETRIES
      [] call.op = "create_timestamped_folder" -> FolderCounterLimit
      [] call.op = "upload_with_retry" -> max_retries
      [] call.op = "wait_for_parsing" -> MaxPolls - 1
      [] OTHER -> 0

\* C40: process_email terminates whatever the collaborators answer: a call
\* that was entered returns; the unique-name search, the folder-collision
\* loop, the upload retry, the resolver retry and the parse poll stay within
\* their bounds, with at most two rounds of polling; and when the call has
\* returned every attachment was handed to the handler exactly once.
C40_ProcessEmailTerminates ==
    /\ Running ~> (pc = "done")
    /\ [](Running /\ call.op # "" =>
            /\ call.args[1] <= LoopBound
            /\ call.result \in 0..2)
    /\ [](pc = "done" =>
            /\ Len(handled) = Len(email.attachments)
            /\ \A a \in LoopFiles :
                    Count(handled, a) = Count(email.attachments, a))

C40_Witness ==
    /\ pc = "done"
    /\ Len(email.attachments) = MaxLoopFiles
    /\ Len(handled) = MaxLoopFiles
    /\ Len(ledger) = 4

====
